---- MODULE Spec2Model ----
(***************************************************************************)
(* A model of the Catan rules engine of python-catan (src/catan/__init__.py). *)
(* The board graph is the source's full 19-tile / 54-vertex / 72-edge      *)
(* topology; the game state is the Catan object's fields; there is one     *)
(* action per do_action branch plus undo_action.  Every handler is a       *)
(* state transformer written in the order of the source's statements, so   *)
(* that a check placed after a mutation would leave that mutation behind.  *)
(***************************************************************************)
EXTENDS Integers, Sequences, FiniteSets, TLC

(***************************************************************************)
(* Enumerations and module-level tables                                    *)
(***************************************************************************)
None == "None"

STARTING_RESOURCE_AMOUNT == 19
WINNING_VICTORY_POINTS == 10

\* Optional integer arguments (edge_idx_2: EdgeIdx | None): None as an index.
NoIdx == -1

BLUE == "BLUE"
ORANGE == "ORANGE"
RED == "RED"
WHITE == "WHITE"

SETTLEMENT == "SETTLEMENT"
CITY == "CITY"

\* TileType, in the order of the enum's values 0..5.
TileType == <<"DESERT", "HILLS", "FOREST", "MOUNTAINS", "FIELDS", "PASTURE">>

\* ResourceType, in the order of the enum's values 0..4.
ResourceType == <<"BRICK", "LUMBER", "ORE", "GRAIN", "WOOL">>
ResourceTypes == {ResourceType[i] : i \in 1..5}

\* HarborType: the five resource harbors carry the resource's name.
GENERIC == "GENERIC"

KNIGHT == "KNIGHT"
ROAD_BUILDING == "ROAD_BUILDING"
YEAR_OF_PLENTY == "YEAR_OF_PLENTY"
MONOPOLY == "MONOPOLY"
VICTORY_POINT == "VICTORY_POINT"

\* The 25 card objects of the deck, numbered 1..25 in the order of the list.
BASE_DEVELOPMENT_CARD_TYPES ==
    [i \in 1..25 |-> IF i <= 14 THEN KNIGHT
                     ELSE IF i <= 16 THEN ROAD_BUILDING
                     ELSE IF i <= 18 THEN YEAR_OF_PLENTY
                     ELSE IF i <= 20 THEN MONOPOLY
                     ELSE VICTORY_POINT]

TILE_IDXS == 0..18
VERTEX_IDXS == 0..53
EDGE_IDXS == 0..71
TOKENS == (2..6) \cup (8..12)

ROAD_COST == [LUMBER |-> 1, BRICK |-> 1]
SETTLEMENT_COST == [LUMBER |-> 1, BRICK |-> 1, GRAIN |-> 1, WOOL |-> 1]
CITY_COST == [GRAIN |-> 2, ORE |-> 3]
DEVELOPMENT_CARD_COST == [GRAIN |-> 1, WOOL |-> 1, ORE |-> 1]

\* The error classes do_action can raise.
BuildLocationError == "BuildLocationError"
DevelopmentCardError == "DevelopmentCardError"
InvalidResourcesError == "InvalidResourcesError"
NotEnoughGameCardsError == "NotEnoughGameCardsError"
NotEnoughPiecesError == "NotEnoughPiecesError"
PhaseError == "PhaseError"
RobberError == "RobberError"
ValueError == "ValueError"
NotImplementedError == "NotImplementedError"
IndexError == "IndexError"

(***************************************************************************)
(* _CatanBoard: the static topology tables (0-based indices, so table[i+1]) *)
(***************************************************************************)
_TILE_IDX_TO_ADJ_VERTEX_IDXS == <<
    <<0, 1, 30, 47, 28, 29>>,   <<2, 3, 32, 31, 30, 1>>,    <<4, 5, 6, 33, 32, 3>>,
    <<6, 7, 8, 35, 34, 33>>,    <<8, 9, 10, 11, 36, 35>>,   <<36, 11, 12, 13, 38, 37>>,
    <<38, 13, 14, 15, 16, 39>>, <<40, 39, 16, 17, 18, 41>>, <<42, 41, 18, 19, 20, 21>>,
    <<44, 43, 42, 21, 22, 23>>, <<26, 45, 44, 23, 24, 25>>, <<28, 47, 46, 45, 26, 27>>,
    <<30, 31, 48, 53, 46, 47>>, <<32, 33, 34, 49, 48, 31>>, <<34, 35, 36, 37, 50, 49>>,
    <<50, 37, 38, 39, 40, 51>>, <<52, 51, 40, 41, 42, 43>>, <<46, 53, 52, 43, 44, 45>>,
    <<48, 49, 50, 51, 52, 53>> >>

_VERTEX_IDX_TO_ADJ_EDGE_IDXS == <<
    <<0, 1>>,       <<1, 30, 2>>,   <<2, 3>>,       <<3, 31, 4>>,   <<4, 5>>,       <<5, 6>>,
    <<6, 32, 7>>,   <<7, 8>>,       <<8, 33, 9>>,   <<9, 10>>,      <<10, 11>>,     <<11, 34, 12>>,
    <<12, 13>>,     <<13, 35, 14>>, <<14, 15>>,     <<15, 16>>,     <<16, 36, 17>>, <<17, 18>>,
    <<18, 37, 19>>, <<19, 20>>,     <<20, 21>>,     <<21, 38, 22>>, <<22, 23>>,     <<23, 39, 24>>,
    <<24, 25>>,     <<25, 26>>,     <<26, 40, 27>>, <<27, 28>>,     <<28, 41, 29>>, <<29, 0>>,
    <<42, 30, 43>>, <<43, 44, 60>>, <<44, 31, 45>>, <<45, 32, 46>>, <<61, 46, 47>>, <<47, 33, 48>>,
    <<49, 48, 34>>, <<62, 49, 50>>, <<51, 50, 35>>, <<52, 51, 36>>, <<53, 63, 52>>, <<54, 53, 37>>,
    <<38, 55, 54>>, <<56, 55, 64>>, <<57, 56, 39>>, <<40, 58, 57>>, <<59, 65, 58>>, <<41, 42, 59>>,
    <<66, 60, 67>>, <<67, 61, 68>>, <<68, 62, 69>>, <<70, 69, 63>>, <<71, 70, 64>>, <<65, 66, 71>> >>

\* vertex index -> harbor index, as a set of pairs.
_VERTEX_IDX_TO_HARBOR_IDX ==
    { <<0, 0>>, <<2, 1>>, <<3, 1>>, <<6, 2>>, <<7, 2>>, <<9, 3>>, <<10, 3>>, <<12, 4>>,
      <<13, 4>>, <<16, 5>>, <<17, 5>>, <<19, 6>>, <<20, 6>>, <<22, 7>>, <<23, 7>>,
      <<26, 8>>, <<27, 8>>, <<29, 0>> }

\* The elements of a tuple, and the tuple of the members of an index range
\* that satisfy a test, in increasing order (a comprehension over range(n)).
Range(s) == {s[i] : i \in DOMAIN s}

RECURSIVE Ascending(_, _)
Ascending(S, from) ==
    IF \A x \in S : x < from THEN <<>>
    ELSE IF from \in S THEN <<from>> \o Ascending(S, from + 1)
    ELSE Ascending(S, from + 1)

RECURSIVE Flatten(_)
Flatten(ss) == IF ss = <<>> THEN <<>> ELSE Head(ss) \o Flatten(Tail(ss))

\* Vertex.adj_edges
VertexAdjEdges == [v \in VERTEX_IDXS |-> _VERTEX_IDX_TO_ADJ_EDGE_IDXS[v + 1]]

\* Edge.adj_vertices: the vertices whose edge tuple holds the edge, ascending.
EdgeAdjVertices ==
    [e \in EDGE_IDXS |-> Ascending({v \in VERTEX_IDXS : e \in Range(VertexAdjEdges[v])}, 0)]

\* Edge.adj_edges: the other edges of each adjacent vertex, in that order.
EdgeAdjEdges ==
    [e \in EDGE_IDXS |->
        Flatten([i \in DOMAIN EdgeAdjVertices[e] |->
            LET NotSelf(x) == x # e
            IN  SelectSeq(VertexAdjEdges[EdgeAdjVertices[e][i]], NotSelf)])]

\* Tile.adj_vertices
TileAdjVertices == [t \in TILE_IDXS |-> _TILE_IDX_TO_ADJ_VERTEX_IDXS[t + 1]]

\* Vertex.adj_tiles: the tiles whose vertex tuple holds the vertex, ascending.
VertexAdjTiles ==
    [v \in VERTEX_IDXS |-> Ascending({t \in TILE_IDXS : v \in Range(TileAdjVertices[t])}, 0)]

\* Vertex.adj_vertices: for each adjacent edge, its other endpoint.
VertexAdjVertices ==
    [v \in VERTEX_IDXS |->
        Flatten([i \in DOMAIN VertexAdjEdges[v] |->
            LET NotSelf(x) == x # v
            IN  SelectSeq(EdgeAdjVertices[VertexAdjEdges[v][i]], NotSelf)])]

(***************************************************************************)
(* The constructor's arguments: the players and the board layout.  The     *)
(* lists satisfy Catan.__init__'s validation (19 tiles with the base       *)
(* terrain counts, the base tokens with the empty token on the desert).    *)
(***************************************************************************)
colors == <<BLUE, ORANGE>>
Colors == Range(colors)

tile_types == <<
    "HILLS", "FOREST", "MOUNTAINS", "FIELDS", "PASTURE", "HILLS", "FOREST", "FIELDS",
    "PASTURE", "HILLS", "FOREST", "PASTURE", "FIELDS", "MOUNTAINS", "FOREST", "FIELDS",
    "PASTURE", "MOUNTAINS", "DESERT" >>

\* The tokens of BASE_TOKENS, laid out so that both tiles bearing token 3 are
\* fields; 0 stands for the empty token (Python's None) of the desert.
tokens == <<5, 2, 6, 3, 8, 10, 9, 12, 11, 4, 8, 10, 9, 4, 5, 3, 6, 11, 0>>

\* BASE_HARBOR_TYPES
harbor_types == <<"BRICK", "LUMBER", "ORE", "GRAIN", "WOOL", GENERIC, GENERIC, GENERIC, GENERIC>>

\* Tile.tile_type
TileTileType == [t \in TILE_IDXS |-> tile_types[t + 1]]

\* ResourceType(tile.tile_type.value - 1)
TileResourceType(t) ==
    LET value == CHOOSE i \in 0..5 : TileType[i + 1] = TileTileType[t]
    IN  ResourceType[(value - 1) + 1]

\* Vertex.harbor_type
VertexHarborType ==
    [v \in VERTEX_IDXS |->
        IF \E p \in _VERTEX_IDX_TO_HARBOR_IDX : p[1] = v
        THEN harbor_types[(CHOOSE p \in _VERTEX_IDX_TO_HARBOR_IDX : p[1] = v)[2] + 1]
        ELSE None]

\* The index of the desert tile: tile_types.index(TileType.DESERT).
desert_tile_idx == CHOOSE t \in TILE_IDXS : TileTileType[t] = "DESERT"

\* _CatanBoard.token_to_tiles
token_to_tiles ==
    [token \in TOKENS |-> Ascending({t \in TILE_IDXS : tokens[t + 1] = token}, 0)]

(***************************************************************************)
(* Development cards.  The deck's 25 DevelopmentCard objects are 1..25;    *)
(* their mutable `playable` flag lives in card_playable.  A card that      *)
(* undo_action constructs, DevelopmentCard(type, True), is a new object    *)
(* that is never stored anywhere but one hand and never changes, so it is  *)
(* identified by its type alone (26..29).                                  *)
(***************************************************************************)
FreshCard(card_type) ==
    CASE card_type = KNIGHT -> 26
      [] card_type = ROAD_BUILDING -> 27
      [] card_type = YEAR_OF_PLENTY -> 28
      [] card_type = MONOPOLY -> 29

CardType(card) ==
    IF card <= 25 THEN BASE_DEVELOPMENT_CARD_TYPES[card]
    ELSE CHOOSE t \in {KNIGHT, ROAD_BUILDING, YEAR_OF_PLENTY, MONOPOLY} : FreshCard(t) = card

CardPlayable(g, card) == card > 25 \/ card \in g.card_playable

(***************************************************************************)
(* Catan.__init__: the game right after construction.  deck is the         *)
(* outcome of shuffle(self.development_cards).                             *)
(***************************************************************************)
NewGameOf(player_colors, deck) ==
    [ players |-> player_colors,
      resource_amounts |-> [r \in ResourceTypes |-> STARTING_RESOURCE_AMOUNT],
      development_cards |-> deck,
      card_playable |-> {},
      largest_army_player |-> None,
      longest_road_player |-> None,
      round |-> 1,
      turns_this_round |-> 0,
      _connected_edges |-> [c \in Range(player_colors) |-> {}],
      _connected_vertices |-> [c \in Range(player_colors) |-> {}],
      _distance_rule_vertices |-> {},
      _building_vertices |-> [c \in Range(player_colors) |-> {}],
      _action_stack |-> <<>>,
      edge_road |-> <<>>,
      vertex_building |-> <<>>,
      tile_has_robber |-> {desert_tile_idx},
      robber_tile |-> desert_tile_idx,
      p_resource_amounts |-> [c \in Range(player_colors) |-> [r \in ResourceTypes |-> 0]],
      p_development_cards |-> [c \in Range(player_colors) |-> <<>>],
      settlements_left |-> [c \in Range(player_colors) |-> 5],
      cities_left |-> [c \in Range(player_colors) |-> 4],
      roads_left |-> [c \in Range(player_colors) |-> 15],
      p_harbor_types |-> [c \in Range(player_colors) |-> {}],
      knights_played |-> [c \in Range(player_colors) |-> 0],
      longest_road |-> [c \in Range(player_colors) |-> 0],
      victory_points |-> [c \in Range(player_colors) |-> 0],
      err |-> None ]

\* The two-player game the scenarios below are played in.
NewGame(deck) == NewGameOf(colors, deck)

\* Catan._color_to_player (its keys)
_color_to_player(g) == Range(g.players)

\* Catan.turn
turn(g) == g.players[1]

\* A variant of is_set_up that ends the set-up phase after the first round.
is_set_up_first_round(g) == g.round <= 1

\* Catan.is_set_up
is_set_up(g) == g.round <= 2

\* A mutant of winner: the threshold compared with > instead of >=.
winner_strict(g) ==
    IF \E i \in DOMAIN g.players : g.victory_points[g.players[i]] > WINNING_VICTORY_POINTS
    THEN g.players[CHOOSE i \in DOMAIN g.players :
            /\ g.victory_points[g.players[i]] > WINNING_VICTORY_POINTS
            /\ \A j \in 1..(i - 1) : g.victory_points[g.players[j]] <= WINNING_VICTORY_POINTS]
    ELSE None

\* Catan.winner: the first player, in list order, with enough victory points.
winner(g) ==
    IF \E i \in DOMAIN g.players : g.victory_points[g.players[i]] >= WINNING_VICTORY_POINTS
    THEN g.players[CHOOSE i \in DOMAIN g.players :
            /\ g.victory_points[g.players[i]] >= WINNING_VICTORY_POINTS
            /\ \A j \in 1..(i - 1) : g.victory_points[g.players[j]] < WINNING_VICTORY_POINTS]
    ELSE None

\* Catan.is_game_over
is_game_over(g) == winner(g) # None

\* raise: the call ends here, with whatever the game holds by now.
Raise(g, error) == [g EXCEPT !.err = error]

\* edge.road == Road(color), vertex.building
HasRoad(g, e, color) == e \in DOMAIN g.edge_road /\ g.edge_road[e] = color
HasBuilding(g, v) == v \in DOMAIN g.vertex_building

\* all(player.resource_amounts[resource_type] >= abs(cost) for ... in COST.items())
CanPay(g, player, cost) ==
    \A r \in DOMAIN cost : g.p_resource_amounts[player][r] >= cost[r]

\* self._action_stack[-1].append(state)
PushState(g, save_state, state) ==
    IF save_state
    THEN [g EXCEPT !._action_stack[Len(g._action_stack)].prev_states = Append(@, state)]
    ELSE g

\* A mutant of _transfer_resources: the receiver is credited, the giver not debited.
_transfer_resources_no_debit(g, player_from, player_to, amounts) ==
    LET Add(h) == [r \in ResourceTypes |-> IF r \in DOMAIN amounts THEN h[r] + amounts[r] ELSE h[r]]
    IN  IF player_to = None
        THEN [g EXCEPT !.resource_amounts = Add(@)]
        ELSE [g EXCEPT !.p_resource_amounts[player_to] = Add(@)]

\* Catan._transfer_resources; None stands for the bank (self).
_transfer_resources(g, player_from, player_to, amounts) ==
    LET Sub(h) == [r \in ResourceTypes |-> IF r \in DOMAIN amounts THEN h[r] - amounts[r] ELSE h[r]]
        Add(h) == [r \in ResourceTypes |-> IF r \in DOMAIN amounts THEN h[r] + amounts[r] ELSE h[r]]
        g1 == IF player_from = None
              THEN [g EXCEPT !.resource_amounts = Sub(@)]
              ELSE [g EXCEPT !.p_resource_amounts[player_from] = Sub(@)]
    IN  IF player_to = None
        THEN [g1 EXCEPT !.resource_amounts = Add(@)]
        ELSE [g1 EXCEPT !.p_resource_amounts[player_to] = Add(@)]

Max(a, b) == IF a >= b THEN a ELSE b
Min(a, b) == IF a <= b THEN a ELSE b

(***************************************************************************)
(* Longest road                                                            *)
(***************************************************************************)
\* Catan._get_longest_road_from_edge.  `visited` is one set shared by the
\* whole search: the generator tests `adj_edge not in visited` when it
\* reaches the edge, after the earlier branches have grown the set, so the
\* candidates are folded from left to right and the set is threaded through.
RECURSIVE _get_longest_road_from_edge(_, _, _, _)
RECURSIVE LongestOverCandidates(_, _, _, _, _)
_get_longest_road_from_edge(g, edge, prev_edge, visited) ==
    LET player == turn(g)
        Valid(vertex) ==
            /\ prev_edge = NoIdx \/ vertex \notin Range(EdgeAdjVertices[prev_edge])
            /\ ~HasBuilding(g, vertex) \/ g.vertex_building[vertex].color = player
        valid_vertices == SelectSeq(EdgeAdjVertices[edge], Valid)
        candidates == Flatten([i \in DOMAIN valid_vertices |-> VertexAdjEdges[valid_vertices[i]]])
        r == LongestOverCandidates(g, edge, candidates, 0, visited \cup {edge})
    IN  [len |-> 1 + r.len, visited |-> r.visited]

LongestOverCandidates(g, edge, candidates, best, visited) ==
    IF candidates = <<>> THEN [len |-> best, visited |-> visited]
    ELSE LET adj_edge == Head(candidates)
         IN  IF HasRoad(g, adj_edge, turn(g)) /\ adj_edge \notin visited
             THEN LET r == _get_longest_road_from_edge(g, adj_edge, edge, visited)
                  IN  LongestOverCandidates(g, edge, Tail(candidates), Max(best, r.len), r.visited)
             ELSE LongestOverCandidates(g, edge, Tail(candidates), best, visited)

\* The edges the while-loop of __build_road pops: the new edge and every road
\* of the player's color linked to it through adjacent same-color roads.
RECURSIVE RoadComponent(_, _, _)
RoadComponent(g, color, reached) ==
    LET more == {a \in DOMAIN g.edge_road :
                    /\ g.edge_road[a] = color
                    /\ \E e \in reached : a \in Range(EdgeAdjEdges[e])}
    IN  IF more \subseteq reached THEN reached
        ELSE RoadComponent(g, color, reached \cup more)

SetMax(S) == IF S = {} THEN 0 ELSE CHOOSE x \in S : \A y \in S : y <= x

\* A mutant of the search: it counts the vertices of the path, one more than
\* its roads.
ComponentLongestRoad_in_vertices(g, edge) ==
    1 + SetMax({_get_longest_road_from_edge(g, cur_edge, NoIdx, {}).len :
                    cur_edge \in RoadComponent(g, turn(g), {edge})})

\* __build_road, lines 747-758: the maximum of the search over the start edges.
ComponentLongestRoad(g, edge) ==
    SetMax({_get_longest_road_from_edge(g, cur_edge, NoIdx, {}).len :
                cur_edge \in RoadComponent(g, turn(g), {edge})})

\* A mutant of the arbitration: a tie transfers the bonus too (>= for >).
BecomesLongestRoadPlayer_on_tie(g, player) ==
    /\ g.longest_road[player] >= 5
    /\ \/ g.longest_road_player = None
       \/ /\ g.longest_road_player # player
          /\ g.longest_road[player] >= g.longest_road[g.longest_road_player]

\* A mutant of the arbitration: only the first qualifier ever takes the bonus.
BecomesLongestRoadPlayer_first_only(g, player) ==
    /\ g.longest_road[player] >= 5
    /\ g.longest_road_player = None

\* __build_road, lines 763-767: the condition under which the bonus moves.
BecomesLongestRoadPlayer(g, player) ==
    /\ g.longest_road[player] >= 5
    /\ \/ g.longest_road_player = None
       \/ /\ g.longest_road_player # player
          /\ g.longest_road[player] > g.longest_road[g.longest_road_player]

\* Catan.__build_road
__build_road(g, edge, save_state) ==
    LET player == turn(g)
        NewEdge(e) == e \notin g._connected_edges[player]
        NewVertex(v) == v \notin g._connected_vertices[player]
        added_connected_edge_idxs == SelectSeq(EdgeAdjEdges[edge], NewEdge)
        added_connected_vertex_idxs == SelectSeq(EdgeAdjVertices[edge], NewVertex)
        \* lines 760-790: the arbitration, on the game g3 that holds the new length
        Arbitrate(g3, prev_longest_road) ==
            LET became_longest_road_player == BecomesLongestRoadPlayer(g3, player)
                prev_longest_road_player ==
                    IF became_longest_road_player THEN g3.longest_road_player ELSE None
                g4 == IF became_longest_road_player /\ g3.longest_road_player # None
                      THEN [g3 EXCEPT !.victory_points[g3.longest_road_player] = @ - 2]
                      ELSE g3
                g5 == IF became_longest_road_player
                      THEN [g4 EXCEPT !.longest_road_player = player,
                                      !.victory_points[player] = @ + 2]
                      ELSE g4
            IN  PushState(g5, save_state,
                          <<edge, added_connected_edge_idxs, added_connected_vertex_idxs,
                            prev_longest_road, became_longest_road_player,
                            prev_longest_road_player>>)
        \* lines 745-759: the search, on the game g2 that holds the new road
        Measure(g2) ==
            Arbitrate([g2 EXCEPT !.longest_road[player] = Max(@, ComponentLongestRoad(g2, edge))],
                      g2.longest_road[player])
    IN  Measure([g EXCEPT !.roads_left[player] = @ - 1,
                          !.edge_road = [e \in DOMAIN @ \cup {edge} |->
                                           IF e = edge THEN player ELSE @[e]],
                          !._connected_edges[player] = @ \cup Range(EdgeAdjEdges[edge]),
                          !._connected_vertices[player] = @ \cup Range(EdgeAdjVertices[edge])])

\* Catan.__build_settlement
__build_settlement(g, vertex, save_state) ==
    LET player == turn(g)
        New(v) == v \notin g._distance_rule_vertices
        added_distance_rule_vertex_idxs == SelectSeq(VertexAdjVertices[vertex], New)
        added_harbor_type ==
            IF VertexHarborType[vertex] # None
               /\ VertexHarborType[vertex] \notin g.p_harbor_types[player]
            THEN VertexHarborType[vertex] ELSE None
        g1 == [g EXCEPT
                 !.settlements_left[player] = @ - 1,
                 !.vertex_building = [v \in DOMAIN @ \cup {vertex} |->
                     IF v = vertex THEN [color |-> player, building_type |-> SETTLEMENT]
                     ELSE @[v]],
                 !._building_vertices[player] = @ \cup {vertex},
                 !._distance_rule_vertices = @ \cup Range(VertexAdjVertices[vertex]),
                 !.victory_points[player] = @ + 1,
                 !.p_harbor_types[player] =
                     IF added_harbor_type # None THEN @ \cup {added_harbor_type} ELSE @]
    IN  PushState(g1, save_state,
                  <<vertex, added_distance_rule_vertex_idxs, added_harbor_type>>)

\* `vertex.building != Building(player.color)`: no settlement of the player's.
NotOwnSettlement(g, vertex, player) ==
    ~ (HasBuilding(g, vertex)
       /\ g.vertex_building[vertex] = [color |-> player, building_type |-> SETTLEMENT])

\* Catan._build_city
_build_city(g, vertex_idx, save_state) ==
    LET player == turn(g) IN
    IF vertex_idx \notin VERTEX_IDXS THEN Raise(g, ValueError)
    ELSE IF g.cities_left[player] = 0 THEN Raise(g, NotEnoughPiecesError)
    ELSE IF NotOwnSettlement(g, vertex_idx, player) THEN Raise(g, BuildLocationError)
    ELSE IF ~CanPay(g, player, CITY_COST) THEN Raise(g, InvalidResourcesError)
    ELSE LET g1 == _transfer_resources(g, player, None, CITY_COST)
             g2 == [g1 EXCEPT !.settlements_left[player] = @ + 1,
                              !.cities_left[player] = @ - 1,
                              !.vertex_building[vertex_idx].building_type = CITY,
                              !.victory_points[player] = @ + 1]
         IN  PushState(g2, save_state, vertex_idx)

\* The connectivity test of _build_road and _play_road_building: an adjacent
\* road of the player's color, or a building of the player's on an endpoint.
RoadIsConnected(g, edge, player) ==
    \/ \E a \in Range(EdgeAdjEdges[edge]) : HasRoad(g, a, player)
    \/ \E v \in Range(EdgeAdjVertices[edge]) :
            HasBuilding(g, v) /\ g.vertex_building[v].color = player

\* Catan._build_road
_build_road(g, edge_idx, save_state) ==
    LET player == turn(g) IN
    IF edge_idx \notin EDGE_IDXS THEN Raise(g, ValueError)
    ELSE IF g.roads_left[player] = 0 THEN Raise(g, NotEnoughPiecesError)
    ELSE IF edge_idx \in DOMAIN g.edge_road THEN Raise(g, BuildLocationError)
    ELSE IF ~RoadIsConnected(g, edge_idx, player) THEN Raise(g, BuildLocationError)
    ELSE IF ~CanPay(g, player, ROAD_COST) THEN Raise(g, InvalidResourcesError)
    ELSE __build_road(_transfer_resources(g, player, None, ROAD_COST), edge_idx, save_state)

\* A mutant of _build_settlement: the distance-rule test is left out.
_build_settlement_no_distance_rule(g, vertex_idx, save_state) ==
    LET player == turn(g) IN
    IF vertex_idx \notin VERTEX_IDXS THEN Raise(g, ValueError)
    ELSE IF g.settlements_left[player] = 0 THEN Raise(g, NotEnoughPiecesError)
    ELSE IF HasBuilding(g, vertex_idx) THEN Raise(g, BuildLocationError)
    ELSE IF vertex_idx \notin g._connected_vertices[player] THEN Raise(g, BuildLocationError)
    ELSE IF ~CanPay(g, player, SETTLEMENT_COST) THEN Raise(g, InvalidResourcesError)
    ELSE __build_settlement(_transfer_resources(g, player, None, SETTLEMENT_COST),
                            vertex_idx, save_state)

\* A mutant of _build_settlement: the location is checked before the pieces.
_build_settlement_location_first(g, vertex_idx, save_state) ==
    LET player == turn(g) IN
    IF vertex_idx \notin VERTEX_IDXS THEN Raise(g, ValueError)
    ELSE IF HasBuilding(g, vertex_idx) THEN Raise(g, BuildLocationError)
    ELSE IF vertex_idx \notin g._connected_vertices[player] THEN Raise(g, BuildLocationError)
    ELSE IF vertex_idx \in g._distance_rule_vertices THEN Raise(g, BuildLocationError)
    ELSE IF g.settlements_left[player] = 0 THEN Raise(g, NotEnoughPiecesError)
    ELSE IF ~CanPay(g, player, SETTLEMENT_COST) THEN Raise(g, InvalidResourcesError)
    ELSE __build_settlement(_transfer_resources(g, player, None, SETTLEMENT_COST),
                            vertex_idx, save_state)

\* Catan._build_settlement
_build_settlement(g, vertex_idx, save_state) ==
    LET player == turn(g) IN
    IF vertex_idx \notin VERTEX_IDXS THEN Raise(g, ValueError)
    ELSE IF g.settlements_left[player] = 0 THEN Raise(g, NotEnoughPiecesError)
    ELSE IF HasBuilding(g, vertex_idx) THEN Raise(g, BuildLocationError)
    ELSE IF vertex_idx \notin g._connected_vertices[player] THEN Raise(g, BuildLocationError)
    ELSE IF vertex_idx \in g._distance_rule_vertices THEN Raise(g, BuildLocationError)
    ELSE IF ~CanPay(g, player, SETTLEMENT_COST) THEN Raise(g, InvalidResourcesError)
    ELSE __build_settlement(_transfer_resources(g, player, None, SETTLEMENT_COST),
                            vertex_idx, save_state)

(***************************************************************************)
(* Turn order, set-up, development cards, resource flow                    *)
(***************************************************************************)
\* self._action_stack[-1].extend(states)
ExtendState(g, save_state, states) ==
    IF save_state
    THEN [g EXCEPT !._action_stack[Len(g._action_stack)].prev_states = @ \o states]
    ELSE g

Reverse(s) == [i \in DOMAIN s |-> s[Len(s) + 1 - i]]

RECURSIVE SumSeq(_)
SumSeq(s) == IF s = <<>> THEN 0 ELSE Head(s) + SumSeq(Tail(s))

\* sum(resource_amounts.values())
Total(amounts) == SumSeq([i \in 1..5 |-> amounts[ResourceType[i]]])

\* A variant of _end_turn that never reverses the player list at a round's end.
_end_turn_never_flips(g, save_state) ==
    LET player == turn(g)
        wraps == g.turns_this_round + 1 = Len(g.players)
        Unplayable(card) == CardType(card) # VICTORY_POINT /\ ~CardPlayable(g, card)
        unplayable_development_cards == SelectSeq(g.p_development_cards[player], Unplayable)
    IN  ExtendState([g EXCEPT !.turns_this_round = IF wraps THEN 0 ELSE @ + 1,
                              !.round = IF wraps THEN @ + 1 ELSE @,
                              !.card_playable = @ \cup Range(unplayable_development_cards),
                              !.players = Tail(@) \o <<Head(@)>>],
                    save_state,
                    <<g.turns_this_round, g.round, unplayable_development_cards, FALSE>>)

\* Catan._end_turn
_end_turn(g, save_state) ==
    LET player == turn(g)
        turns_that_round == g.turns_this_round
        prev_round == g.round
        wraps == g.turns_this_round + 1 = Len(g.players)
        g1 == [g EXCEPT !.turns_this_round = IF wraps THEN 0 ELSE @ + 1,
                        !.round = IF wraps THEN @ + 1 ELSE @]
        Unplayable(card) == CardType(card) # VICTORY_POINT /\ ~CardPlayable(g, card)
        unplayable_development_cards == SelectSeq(g.p_development_cards[player], Unplayable)
        g2 == [g1 EXCEPT !.card_playable = @ \cup Range(unplayable_development_cards),
                         !.players = Tail(@) \o <<Head(@)>>]
        flipped_order == g2.turns_this_round = 0 /\ g2.round \in {2, 3}
        g3 == IF flipped_order THEN [g2 EXCEPT !.players = Reverse(@)] ELSE g2
    IN  ExtendState(g3, save_state,
                    <<turns_that_round, prev_round, unplayable_development_cards, flipped_order>>)

\* Catan._undo_end_turn
_undo_end_turn(g, prev_states) ==
    LET turns_that_round == prev_states[1]
        prev_round == prev_states[2]
        unplayable_development_cards == prev_states[3]
        flipped_order == prev_states[4]
        g1 == IF flipped_order THEN [g EXCEPT !.players = Reverse(@)] ELSE g
    IN  [g1 EXCEPT !.players = <<@[Len(@)]>> \o SubSeq(@, 1, Len(@) - 1),
                   !.card_playable = @ \ Range(unplayable_development_cards),
                   !.round = prev_round,
                   !.turns_this_round = turns_that_round]

\* A variant of SetUpResourceAmounts that gives one card per resource type, not per tile.
SetUpResourceAmounts_one_per_type(vertex) ==
    LET tiles == {t \in Range(VertexAdjTiles[vertex]) : TileTileType[t] # "DESERT"}
    IN  [r \in {TileResourceType(t) : t \in tiles} |-> 1]

\* The resources of a round-2 placement: one per adjacent non-desert tile.
SetUpResourceAmounts(vertex) ==
    LET tiles == {t \in Range(VertexAdjTiles[vertex]) : TileTileType[t] # "DESERT"}
        types == {TileResourceType(t) : t \in tiles}
    IN  [r \in types |-> Cardinality({t \in tiles : TileResourceType(t) = r})]

\* A mutant of _build_set_up: the road may lie on any free edge.
_build_set_up_any_edge(g, vertex_idx, edge_idx, save_state) ==
    LET player == turn(g) IN
    IF vertex_idx \notin VERTEX_IDXS THEN Raise(g, ValueError)
    ELSE IF edge_idx \notin EDGE_IDXS THEN Raise(g, ValueError)
    ELSE IF ~is_set_up(g) THEN Raise(g, PhaseError)
    ELSE IF HasBuilding(g, vertex_idx) THEN Raise(g, BuildLocationError)
    ELSE IF \E v \in Range(VertexAdjVertices[vertex_idx]) : HasBuilding(g, v)
         THEN Raise(g, BuildLocationError)
    ELSE IF edge_idx \in DOMAIN g.edge_road THEN Raise(g, BuildLocationError)
    ELSE LET Placed(g2) ==
                 LET second_round == g2.round = 2
                     resource_amounts ==
                         IF second_round THEN SetUpResourceAmounts(vertex_idx) ELSE <<>>
                     g3 == _transfer_resources(g2, None, player, resource_amounts)
                 IN  ExtendState(_end_turn(g3, save_state), save_state,
                                 <<second_round, resource_amounts>>)
         IN  Placed(__build_road(__build_settlement(g, vertex_idx, save_state),
                                 edge_idx, save_state))

\* Catan._build_set_up
_build_set_up(g, vertex_idx, edge_idx, save_state) ==
    LET player == turn(g) IN
    IF vertex_idx \notin VERTEX_IDXS THEN Raise(g, ValueError)
    ELSE IF edge_idx \notin EDGE_IDXS THEN Raise(g, ValueError)
    ELSE IF ~is_set_up(g) THEN Raise(g, PhaseError)
    ELSE IF HasBuilding(g, vertex_idx) THEN Raise(g, BuildLocationError)
    ELSE IF \E v \in Range(VertexAdjVertices[vertex_idx]) : HasBuilding(g, v)
         THEN Raise(g, BuildLocationError)
    ELSE IF edge_idx \in DOMAIN g.edge_road THEN Raise(g, BuildLocationError)
    ELSE IF edge_idx \notin Range(VertexAdjEdges[vertex_idx]) THEN Raise(g, BuildLocationError)
    ELSE LET Placed(g2) ==
                 LET second_round == g2.round = 2
                     resource_amounts ==
                         IF second_round THEN SetUpResourceAmounts(vertex_idx) ELSE <<>>
                     g3 == _transfer_resources(g2, None, player, resource_amounts)
                 IN  ExtendState(_end_turn(g3, save_state), save_state,
                                 <<second_round, resource_amounts>>)
         IN  Placed(__build_road(__build_settlement(g, vertex_idx, save_state),
                                 edge_idx, save_state))

\* A variant of _buy_development_card that hands the card over playable.
_buy_development_card_playable(g, save_state) ==
    LET player == turn(g) IN
    IF g.development_cards = <<>> THEN Raise(g, NotEnoughGameCardsError)
    ELSE IF ~CanPay(g, player, DEVELOPMENT_CARD_COST) THEN Raise(g, InvalidResourcesError)
    ELSE LET g1 == _transfer_resources(g, player, None, DEVELOPMENT_CARD_COST)
             development_card == g1.development_cards[Len(g1.development_cards)]
             g2 == [g1 EXCEPT !.development_cards = SubSeq(@, 1, Len(@) - 1),
                              !.p_development_cards[player] = Append(@, development_card),
                              !.card_playable = @ \cup {development_card},
                              !.victory_points[player] =
                                  IF CardType(development_card) = VICTORY_POINT THEN @ + 1 ELSE @]
         IN  PushState(g2, save_state, development_card)

\* Catan._buy_development_card
_buy_development_card(g, save_state) ==
    LET player == turn(g) IN
    IF g.development_cards = <<>> THEN Raise(g, NotEnoughGameCardsError)
    ELSE IF ~CanPay(g, player, DEVELOPMENT_CARD_COST) THEN Raise(g, InvalidResourcesError)
    ELSE LET g1 == _transfer_resources(g, player, None, DEVELOPMENT_CARD_COST)
             development_card == g1.development_cards[Len(g1.development_cards)]
             g2 == [g1 EXCEPT !.development_cards = SubSeq(@, 1, Len(@) - 1),
                              !.p_development_cards[player] = Append(@, development_card),
                              !.victory_points[player] =
                                  IF CardType(development_card) = VICTORY_POINT THEN @ + 1 ELSE @]
         IN  PushState(g2, save_state, development_card)

\* A variant of _discard_half that does not compare the amounts with the hand.
_discard_half_any_amounts(g, color, amounts, save_state) ==
    IF color \notin _color_to_player(g) THEN Raise(g, ValueError)
    ELSE LET player == color
             num_resources_discarded == SumSeq(amounts)
             num_player_resources == Total(g.p_resource_amounts[player])
             resource_amounts == [r \in ResourceTypes |->
                                    amounts[CHOOSE i \in 1..5 : ResourceType[i] = r]]
         IN  IF num_resources_discarded # num_player_resources \div 2 THEN Raise(g, ValueError)
             ELSE ExtendState(_transfer_resources(g, player, None, resource_amounts),
                              save_state, <<player, resource_amounts>>)

\* Catan._discard_half; amounts is the list of five integers.
_discard_half(g, color, amounts, save_state) ==
    IF color \notin _color_to_player(g) THEN Raise(g, ValueError)
    ELSE LET player == color
             num_resources_discarded == SumSeq(amounts)
             num_player_resources == Total(g.p_resource_amounts[player])
             resource_amounts == [r \in ResourceTypes |->
                                    amounts[CHOOSE i \in 1..5 : ResourceType[i] = r]]
         IN  IF num_resources_discarded # num_player_resources \div 2 THEN Raise(g, ValueError)
             ELSE IF ~(\A r \in ResourceTypes : g.p_resource_amounts[player][r] >= resource_amounts[r])
                  THEN Raise(g, ValueError)
             ELSE ExtendState(_transfer_resources(g, player, None, resource_amounts),
                              save_state, <<player, resource_amounts>>)

\* A variant of MaritimeRate in which a generic harbor does not count.
MaritimeRate_without_generic(g, player, resource_type_out) ==
    IF resource_type_out \in g.p_harbor_types[player] THEN 2 ELSE 4

\* The rate of a maritime trade: 2 with the resource's harbor, 3 with a
\* generic harbor, else 4.
MaritimeRate(g, player, resource_type_out) ==
    IF resource_type_out \in g.p_harbor_types[player] THEN 2
    ELSE IF GENERIC \in g.p_harbor_types[player] THEN 3
    ELSE 4

\* Catan._maritime_trade
_maritime_trade(g, resource_type_out, resource_type_in, save_state) ==
    LET player == turn(g) IN
    IF resource_type_out = resource_type_in THEN Raise(g, ValueError)
    ELSE IF g.resource_amounts[resource_type_in] = 0 THEN Raise(g, NotEnoughGameCardsError)
    ELSE LET resource_amount_out == MaritimeRate(g, player, resource_type_out)
             resource_amounts_out == (resource_type_out :> resource_amount_out)
             resource_amounts_in == (resource_type_in :> 1)
         IN  IF g.p_resource_amounts[player][resource_type_out] < resource_amount_out
             THEN Raise(g, InvalidResourcesError)
             ELSE ExtendState(
                     _transfer_resources(_transfer_resources(g, player, None, resource_amounts_out),
                                         None, player, resource_amounts_in),
                     save_state, <<resource_amounts_out, resource_amounts_in>>)

\* A variant of ColorsOnTile that takes every other player to be on the tile.
ColorsOnTile_everyone(g, tile, player) == _color_to_player(g) \ {player}

\* The colors, other than the mover's, with a building on the tile.
ColorsOnTile(g, tile, player) ==
    {g.vertex_building[v].color : v \in {w \in Range(TileAdjVertices[tile]) :
        HasBuilding(g, w) /\ g.vertex_building[w].color # player}}

HasAnyResource(g, color) == \E r \in ResourceTypes : g.p_resource_amounts[color][r] > 0

\* A variant of _move_robber that lets the robber move to the tile it is on.
_move_robber_onto_itself(g, new_robber_tile_idx, color_to_take_from, resource_type_take, save_state) ==
    LET player == turn(g) IN
    IF new_robber_tile_idx \notin TILE_IDXS THEN Raise(g, ValueError)
    ELSE IF color_to_take_from # None /\ color_to_take_from \notin _color_to_player(g) THEN Raise(g, ValueError)
    ELSE IF color_to_take_from # None /\ color_to_take_from = player THEN Raise(g, ValueError)
    ELSE LET colors_on_tile == ColorsOnTile(g, new_robber_tile_idx, player)
             takes == color_to_take_from # None /\ HasAnyResource(g, color_to_take_from)
             g1 == IF takes
                   THEN _transfer_resources(g, color_to_take_from, player, (resource_type_take :> 1))
                   ELSE g
             g2 == ExtendState(g1, save_state,
                               <<IF takes THEN color_to_take_from ELSE None,
                                 IF takes THEN resource_type_take ELSE None,
                                 g1.robber_tile>>)
         IN  IF color_to_take_from # None /\ color_to_take_from \notin colors_on_tile
             THEN Raise(g, ValueError)
             ELSE IF color_to_take_from = None /\ (\E c \in colors_on_tile : HasAnyResource(g, c))
             THEN Raise(g, ValueError)
             ELSE [g2 EXCEPT !.tile_has_robber = (@ \ {g2.robber_tile}) \cup {new_robber_tile_idx},
                             !.robber_tile = new_robber_tile_idx]

\* Catan._move_robber.  resource_type_take is the outcome of random.choices
\* over the victim's hand (a type the victim holds), read only when it is drawn.
_move_robber(g, new_robber_tile_idx, color_to_take_from, resource_type_take, save_state) ==
    LET player == turn(g) IN
    IF new_robber_tile_idx \notin TILE_IDXS THEN Raise(g, ValueError)
    ELSE IF color_to_take_from # None /\ color_to_take_from \notin _color_to_player(g) THEN Raise(g, ValueError)
    ELSE IF color_to_take_from # None /\ color_to_take_from = player THEN Raise(g, ValueError)
    ELSE IF new_robber_tile_idx = g.robber_tile THEN Raise(g, RobberError)
    ELSE LET colors_on_tile == ColorsOnTile(g, new_robber_tile_idx, player)
             takes == color_to_take_from # None /\ HasAnyResource(g, color_to_take_from)
             g1 == IF takes
                   THEN _transfer_resources(g, color_to_take_from, player, (resource_type_take :> 1))
                   ELSE g
             g2 == ExtendState(g1, save_state,
                               <<IF takes THEN color_to_take_from ELSE None,
                                 IF takes THEN resource_type_take ELSE None,
                                 g1.robber_tile>>)
         IN  IF color_to_take_from # None /\ color_to_take_from \notin colors_on_tile
             THEN Raise(g, ValueError)
             ELSE IF color_to_take_from = None /\ (\E c \in colors_on_tile : HasAnyResource(g, c))
             THEN Raise(g, ValueError)
             ELSE [g2 EXCEPT !.tile_has_robber = (@ \ {g2.robber_tile}) \cup {new_robber_tile_idx},
                             !.robber_tile = new_robber_tile_idx]

\* DevelopmentCard(card_type, True) in player.development_cards
HasPlayableCard(g, player, card_type) ==
    \E i \in DOMAIN g.p_development_cards[player] :
        /\ CardType(g.p_development_cards[player][i]) = card_type
        /\ CardPlayable(g, g.p_development_cards[player][i])

\* player.development_cards.remove(DevelopmentCard(card_type, True)): the first equal card.
RemovePlayableCard(g, player, card_type) ==
    LET hand == g.p_development_cards[player]
        Matches(i) == CardType(hand[i]) = card_type /\ CardPlayable(g, hand[i])
        first == CHOOSE i \in DOMAIN hand : Matches(i) /\ \A j \in 1..(i - 1) : ~Matches(j)
    IN  [g EXCEPT !.p_development_cards[player] =
            SubSeq(hand, 1, first - 1) \o SubSeq(hand, first + 1, Len(hand))]

\* A mutant of the arbitration: largest army moves on a tie too (>= for >).
BecomesLargestArmyPlayer_on_tie(g, player) ==
    /\ g.knights_played[player] >= 3
    /\ \/ g.largest_army_player = None
       \/ /\ g.largest_army_player # player
          /\ g.knights_played[player] >= g.knights_played[g.largest_army_player]

\* _play_knight, lines 1418-1422: the condition under which largest army moves.
BecomesLargestArmyPlayer(g, player) ==
    /\ g.knights_played[player] >= 3
    /\ \/ g.largest_army_player = None
       \/ /\ g.largest_army_player # player
          /\ g.knights_played[player] > g.knights_played[g.largest_army_player]

\* _play_knight after the robber has moved: lines 1411-1437.
KnightPlayed(g, save_state) ==
    LET player == turn(g)
        g1 == RemovePlayableCard(g, player, KNIGHT)
        g2 == [g1 EXCEPT !.knights_played[player] = @ + 1]
        became_largest_army_player == BecomesLargestArmyPlayer(g2, player)
        prev_largest_army_player ==
            IF became_largest_army_player THEN g2.largest_army_player ELSE None
        g3 == IF became_largest_army_player /\ g2.largest_army_player # None
              THEN [g2 EXCEPT !.victory_points[g2.largest_army_player] = @ - 2]
              ELSE g2
        g4 == IF became_largest_army_player
              THEN [g3 EXCEPT !.largest_army_player = player,
                              !.victory_points[player] = @ + 2]
              ELSE g3
    IN  ExtendState(g4, save_state, <<became_largest_army_player, prev_largest_army_player>>)

\* A mutant of _play_knight: the card leaves the hand before the robber move is validated.
_play_knight_card_first(g, new_robber_tile_idx, color_to_take_from, resource_type_take, save_state) ==
    LET player == turn(g) IN
    IF ~HasPlayableCard(g, player, KNIGHT) THEN Raise(g, DevelopmentCardError)
    ELSE LET g0 == RemovePlayableCard(g, player, KNIGHT)
             g1 == _move_robber(g0, new_robber_tile_idx, color_to_take_from,
                                resource_type_take, save_state)
         IN  IF g1.err # None THEN g1
             ELSE KnightPlayed([g1 EXCEPT !.p_development_cards = g.p_development_cards],
                               save_state)

\* Catan._play_knight
_play_knight(g, new_robber_tile_idx, color_to_take_from, resource_type_take, save_state) ==
    LET player == turn(g) IN
    IF ~HasPlayableCard(g, player, KNIGHT) THEN Raise(g, DevelopmentCardError)
    ELSE LET g1 == _move_robber(g, new_robber_tile_idx, color_to_take_from,
                                resource_type_take, save_state)
         IN  IF g1.err # None THEN g1 ELSE KnightPlayed(g1, save_state)

\* A variant of the loop that takes at most one card from each other player.
RECURSIVE MonopolyTransfers_one_each(_, _, _, _)
MonopolyTransfers_one_each(g, i, resource_type, transfers) ==
    IF i > Len(g.players) THEN [g |-> g, transfers |-> transfers]
    ELSE LET other_player == g.players[i]
             resource_amounts ==
                 (resource_type :> Min(1, g.p_resource_amounts[other_player][resource_type]))
         IN  IF other_player = turn(g)
             THEN MonopolyTransfers_one_each(g, i + 1, resource_type, transfers)
             ELSE MonopolyTransfers_one_each(
                     _transfer_resources(g, other_player, turn(g), resource_amounts),
                     i + 1, resource_type,
                     Append(transfers, <<other_player, resource_amounts>>))

\* The for-loop of _play_monopoly over self.players, from position i on.
RECURSIVE MonopolyTransfers(_, _, _, _)
MonopolyTransfers(g, i, resource_type, transfers) ==
    IF i > Len(g.players) THEN [g |-> g, transfers |-> transfers]
    ELSE LET other_player == g.players[i]
             resource_amounts == (resource_type :> g.p_resource_amounts[other_player][resource_type])
         IN  IF other_player = turn(g)
             THEN MonopolyTransfers(g, i + 1, resource_type, transfers)
             ELSE MonopolyTransfers(
                     _transfer_resources(g, other_player, turn(g), resource_amounts),
                     i + 1, resource_type,
                     Append(transfers, <<other_player, resource_amounts>>))

\* Catan._play_monopoly
_play_monopoly(g, resource_type, save_state) ==
    LET player == turn(g) IN
    IF ~HasPlayableCard(g, player, MONOPOLY) THEN Raise(g, DevelopmentCardError)
    ELSE LET g1 == RemovePlayableCard(g, player, MONOPOLY)
             r == MonopolyTransfers(g1, 1, resource_type, <<>>)
         IN  PushState(r.g, save_state, r.transfers)

\* Catan._play_road_building; edge_idx_2 = NoIdx stands for None.
_play_road_building(g, edge_idx_1, edge_idx_2, save_state) ==
    LET player == turn(g) IN
    IF edge_idx_1 \notin EDGE_IDXS THEN Raise(g, ValueError)
    ELSE IF edge_idx_2 # NoIdx /\ edge_idx_2 \notin EDGE_IDXS THEN Raise(g, ValueError)
    ELSE IF ~HasPlayableCard(g, player, ROAD_BUILDING) THEN Raise(g, DevelopmentCardError)
    ELSE IF g.roads_left[player] = 0 THEN Raise(g, NotEnoughPiecesError)
    ELSE IF (edge_idx_2 = NoIdx) # (g.roads_left[player] = 1) THEN Raise(g, ValueError)
    ELSE IF edge_idx_1 \in DOMAIN g.edge_road THEN Raise(g, BuildLocationError)
    ELSE IF ~RoadIsConnected(g, edge_idx_1, player) THEN Raise(g, BuildLocationError)
    ELSE IF edge_idx_2 # NoIdx /\ edge_idx_2 \in DOMAIN g.edge_road
         THEN Raise(g, BuildLocationError)
    ELSE IF /\ edge_idx_2 # NoIdx
            /\ ~RoadIsConnected(g, edge_idx_2, player)
            /\ edge_idx_1 \notin Range(EdgeAdjEdges[edge_idx_2])
         THEN Raise(g, BuildLocationError)
    ELSE LET Second(g2) ==
                 IF edge_idx_2 # NoIdx THEN __build_road(g2, edge_idx_2, save_state) ELSE g2
         IN  Second(__build_road(RemovePlayableCard(g, player, ROAD_BUILDING),
                                 edge_idx_1, save_state))

\* A variant of _play_year_of_plenty without the check on the number of cards asked for.
_play_year_of_plenty_any_count(g, resource_type_1, resource_type_2, save_state) ==
    LET player == turn(g)
        resource_amounts ==
            IF resource_type_2 = None THEN (resource_type_1 :> 1)
            ELSE IF resource_type_2 = resource_type_1 THEN (resource_type_1 :> 2)
            ELSE [r \in {resource_type_1, resource_type_2} |-> 1]
    IN
    IF ~HasPlayableCard(g, player, YEAR_OF_PLENTY) THEN Raise(g, DevelopmentCardError)
    ELSE IF ~(\A r \in DOMAIN resource_amounts : g.resource_amounts[r] >= resource_amounts[r])
         THEN Raise(g, NotEnoughGameCardsError)
    ELSE PushState(_transfer_resources(RemovePlayableCard(g, player, YEAR_OF_PLENTY),
                                       None, player, resource_amounts),
                   save_state, resource_amounts)

\* Catan._play_year_of_plenty; resource_type_2 may be None.
_play_year_of_plenty(g, resource_type_1, resource_type_2, save_state) ==
    LET player == turn(g)
        resource_amounts ==
            IF resource_type_2 = None THEN (resource_type_1 :> 1)
            ELSE IF resource_type_2 = resource_type_1 THEN (resource_type_1 :> 2)
            ELSE [r \in {resource_type_1, resource_type_2} |-> 1]
    IN
    IF ~HasPlayableCard(g, player, YEAR_OF_PLENTY) THEN Raise(g, DevelopmentCardError)
    ELSE IF (resource_type_2 = None) # (Total(g.resource_amounts) = 1) THEN Raise(g, ValueError)
    ELSE IF ~(\A r \in DOMAIN resource_amounts : g.resource_amounts[r] >= resource_amounts[r])
         THEN Raise(g, NotEnoughGameCardsError)
    ELSE PushState(_transfer_resources(RemovePlayableCard(g, player, YEAR_OF_PLENTY),
                                       None, player, resource_amounts),
                   save_state, resource_amounts)

\* The colors of a tile's buildings in the order color_amounts first meets them.
RECURSIVE FirstSeen(_)
FirstSeen(s) ==
    IF s = <<>> THEN <<>>
    ELSE LET rest == FirstSeen(SubSeq(s, 1, Len(s) - 1))
         IN  IF s[Len(s)] \in Range(rest) THEN rest ELSE Append(rest, s[Len(s)])

TileColors(g, tile) ==
    LET Built(v) == HasBuilding(g, v)
        built == SelectSeq(TileAdjVertices[tile], Built)
    IN  FirstSeen([i \in DOMAIN built |-> g.vertex_building[built[i]].color])

\* color_amounts[color]: 2 per city and 1 per settlement on the tile.
TileColorAmount(g, tile, color) ==
    LET mine == {v \in Range(TileAdjVertices[tile]) :
                    HasBuilding(g, v) /\ g.vertex_building[v].color = color}
    IN  Cardinality(mine)
        + Cardinality({v \in mine : g.vertex_building[v].building_type = CITY})

\* The inner for-loop of _produce_resources over color_amounts.items().
RECURSIVE ProduceForColors(_, _, _, _, _, _)
ProduceForColors(g, tile, tile_colors, i, resource_amount_left, transfers) ==
    IF i > Len(tile_colors) THEN [g |-> g, transfers |-> transfers]
    ELSE LET player == tile_colors[i]
             resource_amounts ==
                 (TileResourceType(tile) :> Min(TileColorAmount(g, tile, player), resource_amount_left))
         IN  ProduceForColors(_transfer_resources(g, None, player, resource_amounts),
                              tile, tile_colors, i + 1, resource_amount_left,
                              Append(transfers, <<player, resource_amounts>>))

\* A mutant of the production: the robber's tile produces like any other.
RECURSIVE ProduceForTiles_robber_ignored(_, _, _, _)
ProduceForTiles_robber_ignored(g, tiles, i, transfers) ==
    IF i > Len(tiles) THEN [g |-> g, transfers |-> transfers]
    ELSE LET tile == tiles[i]
             tile_colors == TileColors(g, tile)
             demand == SumSeq([k \in DOMAIN tile_colors |-> TileColorAmount(g, tile, tile_colors[k])])
             resource_amount_left == g.resource_amounts[TileResourceType(tile)]
         IN  IF resource_amount_left < demand /\ Len(tile_colors) > 1
             THEN ProduceForTiles_robber_ignored(g, tiles, i + 1, transfers)
             ELSE LET r == ProduceForColors(g, tile, tile_colors, 1, resource_amount_left, transfers)
                  IN  ProduceForTiles_robber_ignored(r.g, tiles, i + 1, r.transfers)

\* The outer for-loop of _produce_resources over self.token_to_tiles[token].
RECURSIVE ProduceForTiles(_, _, _, _)
ProduceForTiles(g, tiles, i, transfers) ==
    IF i > Len(tiles) THEN [g |-> g, transfers |-> transfers]
    ELSE LET tile == tiles[i]
             tile_colors == TileColors(g, tile)
             demand == SumSeq([k \in DOMAIN tile_colors |-> TileColorAmount(g, tile, tile_colors[k])])
             resource_amount_left == g.resource_amounts[TileResourceType(tile)]
         IN  IF tile \in g.tile_has_robber
             THEN ProduceForTiles(g, tiles, i + 1, transfers)
             ELSE IF resource_amount_left < demand /\ Len(tile_colors) > 1
             THEN ProduceForTiles(g, tiles, i + 1, transfers)
             ELSE LET r == ProduceForColors(g, tile, tile_colors, 1, resource_amount_left, transfers)
                  IN  ProduceForTiles(r.g, tiles, i + 1, r.transfers)

\* Catan._produce_resources
_produce_resources(g, token, save_state) ==
    IF token \notin TOKENS THEN Raise(g, ValueError)
    ELSE LET r == ProduceForTiles(g, token_to_tiles[token], 1, <<>>)
         IN  PushState(r.g, save_state, r.transfers)

(***************************************************************************)
(* do_action and undo_action                                               *)
(***************************************************************************)
END_TURN == "END_TURN"
BUILD_SET_UP == "BUILD_SET_UP"
PRODUCE_RESOURCES == "PRODUCE_RESOURCES"
DISCARD_HALF == "DISCARD_HALF"
MOVE_ROBBER == "MOVE_ROBBER"
PLAY_DEVELOPMENT_CARD == "PLAY_DEVELOPMENT_CARD"
TRADE_DOMESTIC == "TRADE_DOMESTIC"
TRADE_MARITIME == "TRADE_MARITIME"
BUILD_ROAD == "BUILD_ROAD"
BUILD_SETTLEMENT == "BUILD_SETTLEMENT"
BUILD_CITY == "BUILD_CITY"
BUY_DEVELOPMENT_CARD == "BUY_DEVELOPMENT_CARD"

\* The branches of do_action, lines 1721-1787.
Dispatch(g, action, extra, resource_type_take, save_state) ==
    CASE action = END_TURN -> _end_turn(g, save_state)
      [] action = BUILD_SET_UP -> _build_set_up(g, extra[1], extra[2], save_state)
      [] action = PRODUCE_RESOURCES -> _produce_resources(g, extra[1], save_state)
      [] action = DISCARD_HALF -> _discard_half(g, extra[1], extra[2], save_state)
      [] action = MOVE_ROBBER ->
            _move_robber(g, extra[1], extra[2], resource_type_take, save_state)
      [] action = PLAY_DEVELOPMENT_CARD /\ extra[1] = KNIGHT ->
            _play_knight(g, extra[2], extra[3], resource_type_take, save_state)
      [] action = PLAY_DEVELOPMENT_CARD /\ extra[1] = ROAD_BUILDING ->
            _play_road_building(g, extra[2], extra[3], save_state)
      [] action = PLAY_DEVELOPMENT_CARD /\ extra[1] = YEAR_OF_PLENTY ->
            _play_year_of_plenty(g, extra[2], extra[3], save_state)
      [] action = PLAY_DEVELOPMENT_CARD /\ extra[1] = MONOPOLY ->
            _play_monopoly(g, extra[2], save_state)
      [] action = TRADE_DOMESTIC -> Raise(g, NotImplementedError)
      [] action = TRADE_MARITIME -> _maritime_trade(g, extra[1], extra[2], save_state)
      [] action = BUILD_ROAD -> _build_road(g, extra[1], save_state)
      [] action = BUILD_SETTLEMENT -> _build_settlement(g, extra[1], save_state)
      [] action = BUILD_CITY -> _build_city(g, extra[1], save_state)
      [] action = BUY_DEVELOPMENT_CARD -> _buy_development_card(g, save_state)
      [] OTHER -> g

\* A mutant of do_action: the history entry is pushed only by a call that succeeds.
do_action_push_on_success(g, action, extra, resource_type_take, save_state) ==
    LET g0 == [g EXCEPT !.err = None]
        pushed == [g0 EXCEPT !._action_stack =
                      Append(@, [action |-> action, extra |-> extra, prev_states |-> <<>>])]
        done == Dispatch(pushed, action, extra, resource_type_take, save_state)
    IN  IF is_set_up(g0) # (action = BUILD_SET_UP) THEN Raise(g0, PhaseError)
        ELSE IF ~save_state THEN Dispatch(g0, action, extra, resource_type_take, save_state)
        ELSE IF done.err # None
             THEN [done EXCEPT !._action_stack = g0._action_stack]
             ELSE done

\* Catan.do_action
do_action(g, action, extra, resource_type_take, save_state) ==
    LET g0 == [g EXCEPT !.err = None]
        g1 == IF save_state
              THEN [g0 EXCEPT !._action_stack =
                      Append(@, [action |-> action, extra |-> extra, prev_states |-> <<>>])]
              ELSE g0
    IN  IF is_set_up(g0) # (action = BUILD_SET_UP) THEN Raise(g0, PhaseError)
        ELSE Dispatch(g1, action, extra, resource_type_take, save_state)

\* A variant of UndoBuildRoadState that takes every edge and vertex adjacent
\* to the road out of the connected sets, not only the ones the road added.
UndoBuildRoadState_all_adjacent(g, player, build_road_state, restore_bonus) ==
    LET edge == build_road_state[1]
        prev_longest_road == build_road_state[4]
        became_longest_road_player == build_road_state[5]
        prev_longest_road_player == build_road_state[6]
        g1 == IF restore_bonus /\ became_longest_road_player
              THEN LET h == [g EXCEPT !.victory_points[player] = @ - 2,
                                      !.longest_road_player = prev_longest_road_player]
                   IN  IF prev_longest_road_player # None
                       THEN [h EXCEPT !.victory_points[prev_longest_road_player] = @ + 2]
                       ELSE h
              ELSE g
    IN  [g1 EXCEPT !.longest_road[player] = prev_longest_road,
                   !._connected_edges[player] = @ \ Range(EdgeAdjEdges[edge]),
                   !._connected_vertices[player] = @ \ Range(EdgeAdjVertices[edge]),
                   !.edge_road = [e \in DOMAIN @ \ {edge} |-> @[e]],
                   !.roads_left[player] = @ + 1]

\* undo_action's inverse of one __build_road state (lines 2019-2045); the
\* set-up branch (lines 1853-1879) leaves the bonus alone.
UndoBuildRoadState(g, player, build_road_state, restore_bonus) ==
    LET edge == build_road_state[1]
        added_connected_edge_idxs == build_road_state[2]
        added_connected_vertex_idxs == build_road_state[3]
        prev_longest_road == build_road_state[4]
        became_longest_road_player == build_road_state[5]
        prev_longest_road_player == build_road_state[6]
        g1 == IF restore_bonus /\ became_longest_road_player
              THEN LET h == [g EXCEPT !.victory_points[player] = @ - 2,
                                      !.longest_road_player = prev_longest_road_player]
                   IN  IF prev_longest_road_player # None
                       THEN [h EXCEPT !.victory_points[prev_longest_road_player] = @ + 2]
                       ELSE h
              ELSE g
    IN  [g1 EXCEPT !.longest_road[player] = prev_longest_road,
                   !._connected_edges[player] = @ \ Range(added_connected_edge_idxs),
                   !._connected_vertices[player] = @ \ Range(added_connected_vertex_idxs),
                   !.edge_road = [e \in DOMAIN @ \ {edge} |-> @[e]],
                   !.roads_left[player] = @ + 1]

\* undo_action's inverse of one __build_settlement state (lines 2052-2070).
UndoBuildSettlementState(g, player, build_settlement_state) ==
    LET vertex == build_settlement_state[1]
        added_distance_rule_vertex_idxs == build_settlement_state[2]
        added_harbor_type == build_settlement_state[3]
    IN  [g EXCEPT !.p_harbor_types[player] =
                      IF added_harbor_type # None THEN @ \ {added_harbor_type} ELSE @,
                  !.victory_points[player] = @ - 1,
                  !._distance_rule_vertices = @ \ Range(added_distance_rule_vertex_idxs),
                  !._building_vertices[player] = @ \ {vertex},
                  !.vertex_building = [v \in DOMAIN @ \ {vertex} |-> @[v]],
                  !.settlements_left[player] = @ + 1]

\* Handing back a list of (player, resource_amounts) transfers, in list order.
RECURSIVE UndoTransfers(_, _, _, _)
UndoTransfers(g, transfers, i, to_bank) ==
    IF i > Len(transfers) THEN g
    ELSE UndoTransfers(
            IF to_bank THEN _transfer_resources(g, transfers[i][1], None, transfers[i][2])
            ELSE _transfer_resources(g, turn(g), transfers[i][1], transfers[i][2]),
            transfers, i + 1, to_bank)

\* A mutant of the robber's undo: the robber goes back, the stolen card does not.
UndoRobber_keeps_card(g, player, player_took_from, resource_type_took, prev_robber_tile) ==
    [g EXCEPT !.tile_has_robber = (@ \ {g.robber_tile}) \cup {prev_robber_tile},
              !.robber_tile = prev_robber_tile]

\* Putting the robber back and returning the stolen card (lines 1913-1920, 1947-1954).
UndoRobber(g, player, player_took_from, resource_type_took, prev_robber_tile) ==
    LET g1 == [g EXCEPT !.tile_has_robber = (@ \ {g.robber_tile}) \cup {prev_robber_tile},
                        !.robber_tile = prev_robber_tile]
    IN  IF player_took_from # None
        THEN _transfer_resources(g1, player, player_took_from, (resource_type_took :> 1))
        ELSE g1

\* for build_road_state in build_road_states[::-1]
RECURSIVE UndoRoadStates(_, _, _)
UndoRoadStates(g, player, build_road_states) ==
    IF build_road_states = <<>> THEN g
    ELSE UndoRoadStates(
            UndoBuildRoadState(g, player, build_road_states[Len(build_road_states)], TRUE),
            player, SubSeq(build_road_states, 1, Len(build_road_states) - 1))

\* The PLAY_DEVELOPMENT_CARD branch of undo_action, lines 1921-2006.
UndoPlayDevelopmentCard(g, extra, prev_states) ==
    LET player == turn(g)
        development_card_type == extra[1]
        WithCard(h) == [h EXCEPT !.p_development_cards[player] =
                                    Append(@, FreshCard(development_card_type))]
    IN  CASE development_card_type = KNIGHT ->
                IF Len(prev_states) # 5 THEN Raise(g, ValueError)
                ELSE LET became_largest_army_player == prev_states[4]
                         prev_largest_army_player == prev_states[5]
                         g1 == IF became_largest_army_player
                               THEN LET h == [g EXCEPT !.victory_points[player] = @ - 2,
                                                       !.largest_army_player = prev_largest_army_player]
                                    IN  IF prev_largest_army_player # None
                                        THEN [h EXCEPT !.victory_points[prev_largest_army_player] = @ + 2]
                                        ELSE h
                               ELSE g
                         g2 == WithCard([g1 EXCEPT !.knights_played[player] = @ - 1])
                     IN  UndoRobber(g2, player, prev_states[1], prev_states[2], prev_states[3])
          [] development_card_type = ROAD_BUILDING ->
                WithCard(UndoRoadStates(g, player, prev_states))
          [] development_card_type = YEAR_OF_PLENTY ->
                IF Len(prev_states) # 1 THEN Raise(g, ValueError)
                ELSE WithCard(_transfer_resources(g, player, None, prev_states[1]))
          [] development_card_type = MONOPOLY ->
                IF Len(prev_states) # 1 THEN Raise(g, ValueError)
                ELSE WithCard(UndoTransfers(g, prev_states[1], 1, FALSE))
          [] OTHER -> g

\* The BUILD_SET_UP branch of undo_action, lines 1837-1899.
UndoBuildSetUp(g, prev_states) ==
    IF Len(prev_states) < 4 THEN Raise(g, ValueError)
    ELSE LET n == Len(prev_states)
             build_settlement_state == prev_states[1]
             build_road_state == prev_states[2]
             end_turn_states == SubSeq(prev_states, 3, n - 2)
             second_round == prev_states[n - 1]
             resource_amounts == prev_states[n]
         IN  IF Len(end_turn_states) # 4 THEN Raise(g, ValueError)
             ELSE LET g1 == _undo_end_turn(g, end_turn_states)
                      player == turn(g1)
                      g2 == IF second_round
                            THEN _transfer_resources(g1, player, None, resource_amounts)
                            ELSE g1
                      g3 == UndoBuildRoadState(g2, player, build_road_state, FALSE)
                  IN  UndoBuildSettlementState(g3, player, build_settlement_state)

\* The BUY_DEVELOPMENT_CARD branch of undo_action, lines 2083-2096.
UndoBuyDevelopmentCard(g, prev_states) ==
    IF Len(prev_states) # 1 THEN Raise(g, ValueError)
    ELSE LET player == turn(g)
             development_card == prev_states[1]
             g1 == IF CardType(development_card) = VICTORY_POINT
                   THEN [g EXCEPT !.victory_points[player] = @ - 1]
                   ELSE g
         IN  IF g1.p_development_cards[player] = <<>> THEN Raise(g1, IndexError)
             ELSE _transfer_resources(
                     [g1 EXCEPT !.p_development_cards[player] = SubSeq(@, 1, Len(@) - 1),
                                !.development_cards = Append(@, development_card)],
                     None, player, DEVELOPMENT_CARD_COST)

\* Catan.undo_action.  An entry whose call was rejected holds no saved states,
\* and unpacking it raises ValueError after the pop.
undo_action(g) ==
    IF g._action_stack = <<>> THEN Raise([g EXCEPT !.err = None], IndexError)
    ELSE
    LET entry == g._action_stack[Len(g._action_stack)]
        action == entry.action
        prev_states == entry.prev_states
        g0 == [g EXCEPT !._action_stack = SubSeq(@, 1, Len(@) - 1), !.err = None]
        player == turn(g0)
    IN  CASE action = END_TURN ->
                IF Len(prev_states) # 4 THEN Raise(g0, ValueError)
                ELSE _undo_end_turn(g0, prev_states)
          [] action = BUILD_SET_UP -> UndoBuildSetUp(g0, prev_states)
          [] action = PRODUCE_RESOURCES ->
                IF Len(prev_states) # 1 THEN Raise(g0, ValueError)
                ELSE UndoTransfers(g0, prev_states[1], 1, TRUE)
          [] action = DISCARD_HALF ->
                IF Len(prev_states) # 2 THEN Raise(g0, ValueError)
                ELSE _transfer_resources(g0, None, prev_states[1], prev_states[2])
          [] action = MOVE_ROBBER ->
                IF Len(prev_states) # 3 THEN Raise(g0, ValueError)
                ELSE UndoRobber(g0, player, prev_states[1], prev_states[2], prev_states[3])
          [] action = PLAY_DEVELOPMENT_CARD ->
                UndoPlayDevelopmentCard(g0, entry.extra, prev_states)
          [] action = TRADE_DOMESTIC -> Raise(g0, NotImplementedError)
          [] action = TRADE_MARITIME ->
                IF Len(prev_states) # 2 THEN Raise(g0, ValueError)
                ELSE _transfer_resources(_transfer_resources(g0, None, player, prev_states[1]),
                                         player, None, prev_states[2])
          [] action = BUILD_ROAD ->
                IF Len(prev_states) # 1 THEN Raise(g0, ValueError)
                ELSE _transfer_resources(UndoBuildRoadState(g0, player, prev_states[1], TRUE),
                                         None, player, ROAD_COST)
          [] action = BUILD_SETTLEMENT ->
                IF Len(prev_states) # 1 THEN Raise(g0, ValueError)
                ELSE _transfer_resources(UndoBuildSettlementState(g0, player, prev_states[1]),
                                         None, player, SETTLEMENT_COST)
          [] action = BUILD_CITY ->
                IF Len(prev_states) # 1 THEN Raise(g0, ValueError)
                ELSE _transfer_resources(
                        [g0 EXCEPT !.victory_points[player] = @ - 1,
                                   !.vertex_building[prev_states[1]].building_type = SETTLEMENT,
                                   !.cities_left[player] = @ + 1,
                                   !.settlements_left[player] = @ - 1],
                        None, player, CITY_COST)
          [] action = BUY_DEVELOPMENT_CARD -> UndoBuyDevelopmentCard(g0, prev_states)

(***************************************************************************)
(* Games in progress.  Each is the state that a script of do_action calls  *)
(* (save_state=False) leaves behind, started from a new game whose shuffle  *)
(* put the development cards in the given order.                            *)
(***************************************************************************)
RECURSIVE RunScript(_, _, _)
RunScript(g, script, i) ==
    IF i > Len(script) THEN g
    ELSE CHOOSE final \in
            {IF after.err # None THEN after ELSE RunScript(after, script, i + 1) :
                after \in {do_action(g, script[i][1], script[i][2], None, FALSE)}} : TRUE

Times(call, n) == [i \in 1..n |-> call]
Produce(token, n) == Times(<<PRODUCE_RESOURCES, <<token>>>>, n)
Buy(n) == Times(<<BUY_DEVELOPMENT_CARD, <<>>>>, n)
EndTurn(n) == Times(<<END_TURN, <<>>>>, n)
Road(edge_idx) == <<<<BUILD_ROAD, <<edge_idx>>>>>>
Settlement(vertex_idx) == <<<<BUILD_SETTLEMENT, <<vertex_idx>>>>>>
City(vertex_idx) == <<<<BUILD_CITY, <<vertex_idx>>>>>>
Maritime(resource_type_out, resource_type_in, n) ==
    Times(<<TRADE_MARITIME, <<resource_type_out, resource_type_in>>>>, n)
Knight(tile_idx) == <<<<PLAY_DEVELOPMENT_CARD, <<KNIGHT, tile_idx, None>>>>>>

\* The deck in the order of BASE_DEVELOPMENT_CARD_TYPES: the victory-point cards are drawn first.
BaseDeck == [i \in 1..25 |-> i]

\* A deck whose top cards are a knight and a victory point.
KnightDeck == [i \in 1..23 |-> i + 1] \o <<25, 1>>

\* A deck whose top cards are a knight and a road building.
PurchaseDeck == [i \in 1..13 |-> i + 1] \o [i \in 1..10 |-> i + 15] \o <<15, 1>>

\* A deck whose top cards are a road building and a victory point.
RoadDeck == [i \in 1..14 |-> i] \o [i \in 1..10 |-> i + 15] \o <<15>>

\* A deck whose top cards are a year of plenty and a monopoly.
PlentyDeck ==
    [i \in 1..16 |-> i] \o <<18, 20>> \o <<21, 22, 23, 24, 25>> \o <<19, 17>>

\* A deck whose top cards are knights.
ArmyDeck == [i \in 1..11 |-> i + 14] \o [i \in 1..14 |-> i]

\* The set-up phase: BLUE, ORANGE, ORANGE, BLUE.
SetUpScript ==
    << <<BUILD_SET_UP, <<30, 43>>>>, <<BUILD_SET_UP, <<48, 60>>>>,
       <<BUILD_SET_UP, <<29, 0>>>>, <<BUILD_SET_UP, <<45, 58>>>> >>

\* One development card bought by BLUE in its first turn, playable in its second.
OneCardScript == SetUpScript \o Produce(9, 1) \o Buy(1) \o EndTurn(2)

\* Two development cards bought by BLUE in its first turn.
TwoCardsScript ==
    SetUpScript \o Produce(11, 1) \o Produce(9, 2) \o Produce(10, 1) \o Buy(2)

\* BLUE to move with a playable card and one resource of each type.
MidGameScript ==
    OneCardScript \o Produce(5, 1) \o Produce(9, 1) \o Produce(11, 1) \o Produce(10, 1)

\* BLUE to move with a playable year of plenty and monopoly.
CardsGameScript == TwoCardsScript \o EndTurn(2) \o Produce(5, 1)

\* BLUE to move with a playable card, a road towards vertex 32 and resources
\* for a settlement or a city.
BuildGameScript ==
    OneCardScript \o Produce(5, 2) \o Produce(2, 1) \o Road(44)
    \o Produce(9, 3) \o Produce(11, 3) \o Produce(10, 1)

\* BLUE to move with 9 victory points: two victory-point cards, two cities,
\* a settlement and longest road.
NearWinScript ==
    TwoCardsScript
    \o Produce(11, 3) \o Produce(9, 2) \o City(30)
    \o Produce(11, 3) \o Produce(9, 1) \o City(45)
    \o Produce(5, 2) \o Produce(2, 1) \o Road(42) \o Road(59) \o Road(44)
    \o Produce(9, 1) \o Produce(10, 1) \o Produce(2, 1) \o Settlement(32)
    \o Produce(11, 2) \o Produce(9, 1)

\* ORANGE to move with a road of 4 and resources for two more; BLUE holds
\* longest road with 5; the bank has no brick left.
RoadRaceScript ==
    SetUpScript \o Produce(5, 3) \o Produce(2, 3) \o Road(42) \o Road(59) \o Road(44)
    \o EndTurn(1)
    \o Maritime("BRICK", "LUMBER", 1) \o Road(1) \o Produce(5, 3)
    \o Maritime("BRICK", "LUMBER", 1) \o Road(2) \o Produce(5, 3)
    \o Maritime("BRICK", "LUMBER", 1) \o Road(3)
    \o Produce(5, 6) \o Maritime("BRICK", "LUMBER", 2) \o Produce(5, 2)

\* BLUE to move with all five settlements on the board.
NoSettlementsLeftScript ==
    SetUpScript \o Produce(5, 8) \o Produce(2, 7) \o Produce(9, 3) \o Produce(10, 2)
    \o Road(44) \o Settlement(32) \o Road(30) \o Road(2) \o Settlement(2)
    \o Road(40) \o Road(27) \o Settlement(27)

\* BLUE to move with a generic harbor and three bricks in hand.
GenericHarborScript == NoSettlementsLeftScript \o Produce(5, 3)

\* BLUE to move with two knights played and a third, playable, in hand.
LargestArmyScript ==
    SetUpScript \o Produce(11, 2) \o Produce(9, 3) \o Produce(10, 2) \o Buy(3)
    \o EndTurn(2) \o Knight(11) \o EndTurn(2) \o Knight(1) \o EndTurn(2)

\* BLUE to move with two knights played and two playable knights in hand;
\* ORANGE holds largest army with three played and has one more in hand.
ArmyRaceScript ==
    SetUpScript \o Produce(11, 4) \o Produce(10, 4) \o Produce(9, 4) \o Buy(4) \o EndTurn(1)
    \o Produce(4, 4) \o Produce(5, 8) \o Maritime("BRICK", "WOOL", 4) \o Buy(4) \o EndTurn(1)
    \o Knight(2) \o EndTurn(1) \o Knight(3) \o EndTurn(1)
    \o Knight(2) \o EndTurn(1) \o Knight(3) \o EndTurn(2)
    \o Knight(2) \o EndTurn(1)

\* Set-up placements that are legal in this order, for up to four players.
Placements ==
    << <<30, 43>>, <<48, 60>>, <<29, 0>>, <<45, 58>>, <<2, 2>>, <<10, 10>>, <<20, 20>>, <<40, 53>> >>

\* A game of the given players after the first k set-up placements.
SetUpOf(player_colors, k) ==
    RunScript(NewGameOf(player_colors, BaseDeck),
              [i \in 1..k |-> <<BUILD_SET_UP, Placements[i]>>], 1)

\* Games of three and of four players in their set-up phase.
SetUpGames ==
    {SetUpOf(<<BLUE, ORANGE, RED>>, k) : k \in {0, 2, 4}}
    \cup {SetUpOf(<<BLUE, ORANGE, RED, WHITE>>, k) : k \in {0, 2, 4, 6}}

\* BLUE to move after eight productions of token 3, whose two fields tiles
\* give BLUE (vertex 40) and ORANGE (vertex 33) one grain each: 3 grain are left in the bank.
ScarceGrainScript ==
    << <<BUILD_SET_UP, <<40, 53>>>>, <<BUILD_SET_UP, <<33, 45>>>>,
       <<BUILD_SET_UP, <<29, 0>>>>, <<BUILD_SET_UP, <<45, 58>>>> >> \o Produce(3, 8)

NewGameState == NewGame(BaseDeck)
SecondRound == RunScript(NewGame(BaseDeck), SubSeq(SetUpScript, 1, 2), 1)
LastSetUp == RunScript(NewGame(BaseDeck), SubSeq(SetUpScript, 1, 3), 1)
MidGame == RunScript(NewGame(KnightDeck), MidGameScript, 1)
CardsGame == RunScript(NewGame(PlentyDeck), CardsGameScript, 1)
BuildGame == RunScript(NewGame(RoadDeck), BuildGameScript, 1)
NearWin == RunScript(NewGame(BaseDeck), NearWinScript, 1)
RoadRace == RunScript(NewGame(BaseDeck), RoadRaceScript, 1)
Settled == RunScript(NewGame(BaseDeck), NoSettlementsLeftScript, 1)
Army == RunScript(NewGame(ArmyDeck), LargestArmyScript, 1)
ArmyRace == RunScript(NewGame(ArmyDeck), ArmyRaceScript, 1)
ScarceGrain == RunScript(NewGame(BaseDeck), ScarceGrainScript, 1)
GenericHarbor == RunScript(NewGame(BaseDeck), GenericHarborScript, 1)
Purchase == RunScript(NewGame(PurchaseDeck), MidGameScript, 1)

Games ==
    {NewGameState, SecondRound, LastSetUp, MidGame, CardsGame, BuildGame, NearWin, RoadRace,
     Settled, Army, ArmyRace} \cup SetUpGames

(***************************************************************************)
(* The game as a state machine.  catan is the Catan object; the other      *)
(* variables are history variables that record the calls made on it.        *)
(***************************************************************************)
VARIABLES
    catan,      \* the Catan object
    last,       \* the last call: its operation, its action and the error it raised
    shadow,     \* for each history entry, the object as it was before the call that pushed it
    undone,     \* the shadow entry of the history entry the last undo_action popped
    pattern,    \* whether the calls so far are n accepted do_action calls, then undo_action calls
    rejections  \* the number of do_action calls that raised an error

vars == <<catan, last, shadow, undone, pattern, rejections>>

\* Bounds of the exploration.
MaxStack == 2
MaxRejected == 1
MaxShortStack == 1
MaxHand == 3

\* No hand of development cards has grown beyond the bound.
HandsBounded(g) == \A color \in _color_to_player(g) : Len(g.p_development_cards[color]) <= MaxHand

\* The arguments the calls are tried with.  Each set holds arguments that are
\* accepted in some explored state and arguments that are rejected.
SetUpInputs == Range(Placements) \cup {<<31, 44>>, <<30, 44>>, <<54, 0>>, <<52, 71>>}
VertexInputs == {30, 31, 32, 54}
EdgeInputs == {4, 29, 43, 44, 72}
RoadBuildingInputs ==
    {<<44, 45>>, <<44, NoIdx>>, <<45, 44>>, <<44, 44>>, <<72, NoIdx>>}
RobberInputs ==
    {<<0, ORANGE>>, <<0, None>>, <<0, BLUE>>, <<11, None>>, <<18, None>>, <<18, ORANGE>>,
     <<19, None>>}
YearOfPlentyInputs == {<<"BRICK", "ORE">>, <<"ORE", None>>, <<"ORE", "ORE">>}
TokenInputs == {3, 5, 7, 9}
ResourceInputs == {"BRICK", "ORE"}
DiscardInputs == {<<1, 1, 0, 0, 0>>, <<1, 0, 0, 1, 0>>}

\* choices(list(ResourceType), weights)[0] in _move_robber: any resource the
\* victim holds; None when the call takes nothing.
TakeInputs(g, color) ==
    IF color \in _color_to_player(g) /\ HasAnyResource(g, color)
    THEN {r \in ResourceTypes : g.p_resource_amounts[color][r] > 0}
    ELSE {None}

\* The history holds at most MaxStack entries.
CanCall == Len(catan._action_stack) < MaxStack

\* One call of do_action(action, extra, save_state=True).
Do(action, extra, resource_type_take) ==
    \E after \in {do_action(catan, action, extra, resource_type_take, TRUE)} :
    LET pushed == Len(after._action_stack) > Len(catan._action_stack)
        sh == IF pushed
              THEN Append(shadow, [before |-> catan, accepted |-> after.err = None])
              ELSE shadow
    IN  /\ after.err # None => rejections < MaxRejected
        /\ HandsBounded(after)
        /\ catan' = [after EXCEPT !.err = None]
        /\ last' = [op |-> "do_action", action |-> action, extra |-> extra,
                    err |-> after.err, immediate |-> FALSE]
        /\ shadow' = sh
        /\ undone' = <<>>
        /\ pattern' = IF pattern = "do" /\ after.err = None THEN "do" ELSE "other"
        /\ rejections' = IF after.err # None THEN rejections + 1 ELSE rejections

DoEndTurn ==
    /\ CanCall
    /\ Do(END_TURN, <<>>, None)

DoBuildSetUp ==
    /\ CanCall
    /\ \E set_up \in SetUpInputs : Do(BUILD_SET_UP, set_up, None)

DoProduceResources ==
    /\ CanCall
    /\ \E token \in TokenInputs : Do(PRODUCE_RESOURCES, <<token>>, None)

DoDiscardHalf ==
    /\ CanCall
    /\ \E color \in Colors, amounts \in DiscardInputs : Do(DISCARD_HALF, <<color, amounts>>, None)

DoMoveRobber ==
    /\ CanCall
    /\ \E robber \in RobberInputs :
        \E resource_type_take \in TakeInputs(catan, robber[2]) :
            Do(MOVE_ROBBER, robber, resource_type_take)

DoPlayKnight ==
    /\ CanCall
    /\ \E robber \in RobberInputs :
        \E resource_type_take \in TakeInputs(catan, robber[2]) :
            Do(PLAY_DEVELOPMENT_CARD, <<KNIGHT>> \o robber, resource_type_take)

DoPlayRoadBuilding ==
    /\ CanCall
    /\ \E edges \in RoadBuildingInputs :
        Do(PLAY_DEVELOPMENT_CARD, <<ROAD_BUILDING, edges[1], edges[2]>>, None)

DoPlayYearOfPlenty ==
    /\ CanCall
    /\ \E resource_types \in YearOfPlentyInputs :
        Do(PLAY_DEVELOPMENT_CARD, <<YEAR_OF_PLENTY>> \o resource_types, None)

DoPlayMonopoly ==
    /\ CanCall
    /\ \E resource_type \in ResourceInputs :
        Do(PLAY_DEVELOPMENT_CARD, <<MONOPOLY, resource_type>>, None)

DoTradeDomestic ==
    /\ CanCall
    /\ Do(TRADE_DOMESTIC, <<>>, None)

DoTradeMaritime ==
    /\ CanCall
    /\ \E resource_type_out \in ResourceInputs, resource_type_in \in ResourceInputs :
        Do(TRADE_MARITIME, <<resource_type_out, resource_type_in>>, None)

DoBuildRoad ==
    /\ CanCall
    /\ \E edge_idx \in EdgeInputs : Do(BUILD_ROAD, <<edge_idx>>, None)

DoBuildSettlement ==
    /\ CanCall
    /\ \E vertex_idx \in VertexInputs : Do(BUILD_SETTLEMENT, <<vertex_idx>>, None)

DoBuildCity ==
    /\ CanCall
    /\ \E vertex_idx \in VertexInputs : Do(BUILD_CITY, <<vertex_idx>>, None)

DoBuyDevelopmentCard ==
    /\ CanCall
    /\ Do(BUY_DEVELOPMENT_CARD, <<>>, None)

\* One call of undo_action().
Undo ==
    \E after \in {undo_action(catan)} :
    LET popped == catan._action_stack # <<>>
    IN  /\ HandsBounded(after)
        /\ catan' = [after EXCEPT !.err = None]
        /\ last' = [op |-> "undo_action",
                    action |-> None,
                    extra |-> <<>>,
                    err |-> after.err,
                    immediate |-> last.op = "do_action" /\ last.err = None]
        /\ shadow' = IF popped THEN SubSeq(shadow, 1, Len(shadow) - 1) ELSE shadow
        /\ undone' = IF popped THEN <<shadow[Len(shadow)]>> ELSE <<>>
        /\ pattern' = IF pattern \in {"do", "undo"} /\ popped THEN "undo" ELSE "other"
        /\ UNCHANGED rejections

Init ==
    /\ catan \in Games
    /\ last = [op |-> "Catan", action |-> None, extra |-> <<>>, err |-> None,
               immediate |-> FALSE]
    /\ shadow = <<>>
    /\ undone = <<>>
    /\ pattern = "do"
    /\ rejections = 0

Next ==
    \/ DoEndTurn
    \/ DoBuildSetUp
    \/ DoProduceResources
    \/ DoDiscardHalf
    \/ DoMoveRobber
    \/ DoPlayKnight
    \/ DoPlayRoadBuilding
    \/ DoPlayYearOfPlenty
    \/ DoPlayMonopoly
    \/ DoTradeDomestic
    \/ DoTradeMaritime
    \/ DoBuildRoad
    \/ DoBuildSettlement
    \/ DoBuildCity
    \/ DoBuyDevelopmentCard
    \/ Undo

Spec == Init /\ [][Next]_vars

\* The same calls with a history of at most MaxShortStack entries: the states
\* the enumerators are run in.
ShortHistory == Len(catan._action_stack) < MaxShortStack

EnumeratorNext ==
    \/ ShortHistory /\ DoEndTurn
    \/ ShortHistory /\ DoBuildSetUp
    \/ ShortHistory /\ DoProduceResources
    \/ ShortHistory /\ DoDiscardHalf
    \/ ShortHistory /\ DoMoveRobber
    \/ ShortHistory /\ DoPlayKnight
    \/ ShortHistory /\ DoPlayRoadBuilding
    \/ ShortHistory /\ DoPlayYearOfPlenty
    \/ ShortHistory /\ DoPlayMonopoly
    \/ ShortHistory /\ DoTradeDomestic
    \/ ShortHistory /\ DoTradeMaritime
    \/ ShortHistory /\ DoBuildRoad
    \/ ShortHistory /\ DoBuildSettlement
    \/ ShortHistory /\ DoBuildCity
    \/ ShortHistory /\ DoBuyDevelopmentCard
    \/ Undo

EnumeratorSpec == Init /\ [][EnumeratorNext]_vars

(***************************************************************************)
(* What the claims observe                                                 *)
(***************************************************************************)
\* The fields the undo round trip lists: victory points, hands, bank, piece
\* counts, occupancy, reachable sets, robber, awards, lengths, turn order.
Board(g) ==
    [ victory_points |-> g.victory_points,
      p_resource_amounts |-> g.p_resource_amounts,
      resource_amounts |-> g.resource_amounts,
      settlements_left |-> g.settlements_left,
      cities_left |-> g.cities_left,
      roads_left |-> g.roads_left,
      roads |-> {<<e, g.edge_road[e]>> : e \in DOMAIN g.edge_road},
      buildings |-> {<<v, g.vertex_building[v]>> : v \in DOMAIN g.vertex_building},
      _connected_edges |-> g._connected_edges,
      _connected_vertices |-> g._connected_vertices,
      _distance_rule_vertices |-> g._distance_rule_vertices,
      robber_tile |-> g.robber_tile,
      tile_has_robber |-> g.tile_has_robber,
      longest_road_player |-> g.longest_road_player,
      largest_army_player |-> g.largest_army_player,
      longest_road |-> g.longest_road,
      knights_played |-> g.knights_played,
      players |-> g.players,
      round |-> g.round,
      turns_this_round |-> g.turns_this_round ]

\* A hand as the number of cards of each type and playable flag, and the
\* deck as the list of its cards' types.
CardTypes == {KNIGHT, ROAD_BUILDING, YEAR_OF_PLENTY, MONOPOLY, VICTORY_POINT}
Hand(g, color) ==
    [t \in CardTypes, f \in BOOLEAN |->
        Cardinality({i \in DOMAIN g.p_development_cards[color] :
            /\ CardType(g.p_development_cards[color][i]) = t
            /\ CardPlayable(g, g.p_development_cards[color][i]) = f})]
Cards(g) ==
    [ hands |-> [color \in _color_to_player(g) |-> Hand(g, color)],
      deck |-> [i \in DOMAIN g.development_cards |-> CardType(g.development_cards[i])] ]

\* Everything but the history.
Fields(g) == [board |-> Board(g), cards |-> Cards(g),
              hands |-> g.p_development_cards, deck |-> g.development_cards,
              card_playable |-> g.card_playable,
              p_harbor_types |-> g.p_harbor_types,
              _building_vertices |-> g._building_vertices]

\* The game as the last accepted call found it.
Before == shadow[Len(shadow)].before
Accepted == last.op = "do_action" /\ last.err = None
Held(g, r) == SumSeq([i \in DOMAIN g.players |-> g.p_resource_amounts[g.players[i]][r]])

(***************************************************************************)
(* Claims                                                                  *)
(***************************************************************************)
\* C1: after any sequence of successful do_action calls, for each resource
\* type the players' hands and the bank together hold 19.
C1_BankConservation ==
    pattern = "do" =>
        \A r \in ResourceTypes : Held(catan, r) + catan.resource_amounts[r] = STARTING_RESOURCE_AMOUNT

\* A maritime trade went through: the bank and a hand both changed.
C1_Witness ==
    /\ pattern = "do" /\ Accepted /\ last.action = TRADE_MARITIME
    /\ Before.resource_amounts # catan.resource_amounts

\* C2: an accepted do_action(save_state=True) immediately followed by
\* undo_action restores every listed field of the game.
C2_UndoRoundTrip ==
    (last.op = "undo_action" /\ last.immediate) =>
        /\ last.err = None
        /\ Board(catan) = Board(undone[1].before)

\* An undo right after the second of two accepted calls.
C2_Witness ==
    /\ last.op = "undo_action" /\ last.immediate /\ last.err = None
    /\ Len(shadow) = 1 /\ shadow[1].accepted
    /\ undone[1].before # shadow[1].before

\* C3: n successful do_action calls (save_state=True) followed by k undo_action
\* calls leave exactly the game that the first n-k calls had produced,
\* development-card hands and deck included.
C3_UndoIsStack ==
    pattern = "undo" =>
        /\ Board(catan) = Board(undone[1].before)
        /\ Cards(catan) = Cards(undone[1].before)

\* C4: in every reachable state no two adjacent vertices both hold a building.
C4_DistanceRule ==
    \A v \in DOMAIN catan.vertex_building :
        \A w \in Range(VertexAdjVertices[v]) : w \notin DOMAIN catan.vertex_building

\* A settlement was built outside the set-up phase.
C4_Witness ==
    /\ Accepted /\ last.action = BUILD_SETTLEMENT
    /\ DOMAIN catan.vertex_building # DOMAIN Before.vertex_building

\* C5: a do_action call that raises an error leaves every field of the game
\* as it was before the call.
C5_ValidateThenMutate ==
    [][(last'.op = "do_action" /\ last'.err # None) => Fields(catan') = Fields(catan)]_vars

\* A knight was refused by the robber's validation, after the card test passed.
C5_Witness ==
    /\ last.op = "do_action" /\ last.action = PLAY_DEVELOPMENT_CARD /\ last.err = RobberError
    /\ HasPlayableCard(catan, turn(catan), KNIGHT)

\* C6: an accepted do_action appends exactly one history entry, a rejected one
\* appends none, and undo_action removes exactly one.
C6_HistoryDiscipline ==
    [][LET before == Len(catan._action_stack)
           after == Len(catan'._action_stack)
       IN  /\ (last'.op = "do_action" /\ last'.err = None) => after = before + 1
           /\ (last'.op = "do_action" /\ last'.err # None) => after = before
           /\ (last'.op = "undo_action" /\ before > 0) => after = before - 1]_vars

\* C7: an accepted action that takes a player from fewer than 10 victory points
\* to 10 or more leaves the game over with that player as the winner.
C7_WinDetection ==
    [][\A color \in _color_to_player(catan) :
          ( /\ last'.op = "do_action" /\ last'.err = None
            /\ catan.victory_points[color] < WINNING_VICTORY_POINTS
            /\ catan'.victory_points[color] >= WINNING_VICTORY_POINTS )
          => (is_game_over(catan') /\ winner(catan') = color)]_vars

\* The mover went from 9 victory points to 10 or more.
C7_Witness ==
    /\ Accepted
    /\ Before.victory_points[turn(Before)] = WINNING_VICTORY_POINTS - 1
    /\ catan.victory_points[turn(Before)] >= WINNING_VICTORY_POINTS

\* C8: at most one player ever has 10 victory points or more, and once the
\* game is over no do_action call changes any player's victory points.
C8_GameEndsAtFirstWin ==
    [][ /\ Cardinality({color \in _color_to_player(catan) :
                catan'.victory_points[color] >= WINNING_VICTORY_POINTS}) <= 1
        /\ (is_game_over(catan) /\ last'.op = "do_action")
              => catan'.victory_points = catan.victory_points ]_vars

\* C9 as stated: the holder is None exactly when nobody has a longest road of
\* 5 or more; otherwise the holder has 5 or more and strictly more than any other.
C9_HolderIsUniqueMaximum ==
    /\ (catan.longest_road_player = None) <=> (\A color \in _color_to_player(catan) : catan.longest_road[color] < 5)
    /\ catan.longest_road_player # None =>
          /\ catan.longest_road[catan.longest_road_player] >= 5
          /\ \A color \in _color_to_player(catan) \ {catan.longest_road_player} :
                catan.longest_road[catan.longest_road_player] > catan.longest_road[color]

\* C9, amended: the holder is None exactly when nobody has a longest road of 5
\* or more; otherwise the holder has 5 or more and at least as much as any other
\* (a player who only equals the holder's length does not take the bonus).
C9_HolderIsMaximum ==
    /\ (catan.longest_road_player = None) <=> (\A color \in _color_to_player(catan) : catan.longest_road[color] < 5)
    /\ catan.longest_road_player # None =>
          /\ catan.longest_road[catan.longest_road_player] >= 5
          /\ \A color \in _color_to_player(catan) \ {catan.longest_road_player} :
                catan.longest_road[catan.longest_road_player] >= catan.longest_road[color]

\* A road was placed that made the mover's length equal the holder's.
C9_Witness ==
    /\ Accepted /\ last.action = BUILD_ROAD
    /\ catan.longest_road_player = BLUE /\ turn(Before) = ORANGE
    /\ Before.longest_road[ORANGE] < catan.longest_road[ORANGE]
    /\ catan.longest_road[ORANGE] = catan.longest_road[BLUE]

\* C10: a road placement by player p moves the bonus to p exactly when p's
\* length is 5 or more, p is not the holder, and there is no holder or p's
\* length exceeds the holder's; then p gains 2 victory points and the previous
\* holder, if any, loses 2; otherwise holder and victory points are unchanged.
C10_LongestRoadArbitration ==
    [][LET p == turn(catan)
           holder == catan.longest_road_player
           placed == /\ last'.op = "do_action" /\ last'.err = None
                     /\ last'.action \in {BUILD_ROAD, PLAY_DEVELOPMENT_CARD}
                     /\ DOMAIN catan'.edge_road # DOMAIN catan.edge_road
           moves == /\ catan'.longest_road[p] >= 5
                    /\ holder # p
                    /\ holder = None \/ catan'.longest_road[p] > catan.longest_road[holder]
           Gain(color) == catan'.victory_points[color] - catan.victory_points[color]
       IN  placed =>
             IF moves
             THEN /\ catan'.longest_road_player = p
                  /\ Gain(p) = 2
                  /\ \A color \in _color_to_player(catan) \ {p} : Gain(color) = IF color = holder THEN -2 ELSE 0
             ELSE /\ catan'.longest_road_player = holder
                  /\ \A color \in _color_to_player(catan) : Gain(color) = 0]_vars

\* A road took the bonus from the previous holder.
C10_Witness ==
    /\ Accepted /\ last.action = BUILD_ROAD
    /\ Before.longest_road_player = BLUE /\ catan.longest_road_player = ORANGE
    /\ catan.longest_road[ORANGE] > catan.longest_road[BLUE]

\* The last accepted call played a knight.
KnightPlay ==
    /\ last'.op = "do_action" /\ last'.err = None /\ last'.action = PLAY_DEVELOPMENT_CARD
    /\ catan'._action_stack[Len(catan'._action_stack)].extra[1] = KNIGHT

\* The largest-army holder, if any, has played at least 3 knights and nobody has played more.
LargestArmyHolderIsMaximum(g) ==
    g.largest_army_player # None =>
        /\ g.knights_played[g.largest_army_player] >= 3
        /\ \A color \in _color_to_player(g) : g.knights_played[color] <= g.knights_played[g.largest_army_player]

\* C11: playing a knight adds 1 to the player's knights_played and moves
\* largest army to the player iff the new count is >= 3, the player is not
\* the holder, and there is no holder or the count strictly exceeds the
\* holder's; a transfer moves exactly 2 victory points from the previous
\* holder, if any, to the player; in every state the holder, if any, has
\* played at least 3 knights and no other player has played more.
C11_LargestArmyArbitration ==
    [][LET p == turn(catan)
           holder == catan.largest_army_player
           moves == /\ catan'.knights_played[p] >= 3
                    /\ holder # p
                    /\ holder = None \/ catan'.knights_played[p] > catan.knights_played[holder]
           Gain(color) == catan'.victory_points[color] - catan.victory_points[color]
       IN  /\ LargestArmyHolderIsMaximum(catan) /\ LargestArmyHolderIsMaximum(catan')
           /\ KnightPlay =>
                /\ catan'.knights_played =
                      [catan.knights_played EXCEPT ![p] = @ + 1]
                /\ IF moves
                   THEN /\ catan'.largest_army_player = p
                        /\ Gain(p) = 2
                        /\ \A color \in _color_to_player(catan) \ {p} :
                              Gain(color) = IF color = holder THEN -2 ELSE 0
                   ELSE /\ catan'.largest_army_player = holder
                        /\ \A color \in _color_to_player(catan) : Gain(color) = 0]_vars

\* A knight took largest army from the previous holder.
C11_Witness ==
    /\ Accepted /\ last.action = PLAY_DEVELOPMENT_CARD
    /\ Before.largest_army_player = ORANGE /\ catan.largest_army_player = BLUE
    /\ catan.knights_played[BLUE] = 4 /\ catan.knights_played[ORANGE] = 3
    /\ catan.victory_points[ORANGE] = Before.victory_points[ORANGE] - 2

\* The players in the order the constructor was given them: every game
\* explored here was constructed with its colors in the order of the Color enumeration.
InitialOrder(g) ==
    LET Plays(color) == color \in _color_to_player(g)
    IN  SelectSeq(<<BLUE, ORANGE, RED, WHITE>>, Plays)

\* The place in the initial order of the player who makes the j-th of the 2n placements.
Snake(n, j) == IF j <= n THEN j ELSE 2 * n + 1 - j

\* C12: the j-th successful BUILD_SET_UP is performed by the player at place
\* Snake(n, j) of the initial order (P1..Pn, Pn..P1); each one ends the turn;
\* after the last one round = 3, turns_this_round = 0, P1 is to move and the
\* player list is back in its initial order.
C12_SetUpSnakeOrder ==
    [][(last'.op = "do_action" /\ last'.err = None /\ last'.action = BUILD_SET_UP) =>
        LET n == Len(catan.players)
            j == Cardinality(DOMAIN catan.vertex_building) + 1
            order == InitialOrder(catan)
            built == DOMAIN catan'.vertex_building \ DOMAIN catan.vertex_building
        IN  /\ Cardinality(built) = 1
            /\ \A v \in built : catan'.vertex_building[v].color = order[Snake(n, j)]
            /\ turn(catan) = order[Snake(n, j)]
            /\ IF j < 2 * n
               THEN /\ is_set_up(catan')
                    /\ turn(catan') = order[Snake(n, j + 1)]
               ELSE /\ catan'.round = 3 /\ catan'.turns_this_round = 0
                    /\ ~is_set_up(catan')
                    /\ catan'.players = order]_vars

\* The last placement of a four-player set-up has been made.
C12_Witness ==
    /\ Accepted /\ last.action = BUILD_SET_UP
    /\ Len(catan.players) = 4 /\ Cardinality(DOMAIN catan.vertex_building) = 8
    /\ catan.round = 3 /\ turn(catan) = BLUE /\ turn(Before) = BLUE
    /\ Len(shadow) = 2 /\ shadow[1].accepted /\ turn(shadow[1].before) = ORANGE

\* The resource a terrain yields.
TerrainResource(tile_type) ==
    CASE tile_type = "HILLS" -> "BRICK"
      [] tile_type = "FOREST" -> "LUMBER"
      [] tile_type = "MOUNTAINS" -> "ORE"
      [] tile_type = "FIELDS" -> "GRAIN"
      [] tile_type = "PASTURE" -> "WOOL"
      [] OTHER -> None

\* The number of tiles yielding resource r that touch the vertex.
TilesAround(vertex, r) ==
    Cardinality({t \in TILE_IDXS :
        vertex \in Range(TileAdjVertices[t]) /\ TerrainResource(TileTileType[t]) = r})

\* C13: a BUILD_SET_UP placement made in round 2 gives the placing player
\* one card for each non-desert tile adjacent to the new settlement, of the
\* tile's resource type, and takes the same amounts from the bank; a
\* placement made in round 1 moves no resources; no other hand changes.
C13_SetUpResourceGrant ==
    [][(last'.op = "do_action" /\ last'.err = None /\ last'.action = BUILD_SET_UP) =>
        LET p == turn(catan)
            vertex == catan'._action_stack[Len(catan'._action_stack)].extra[1]
            Grant(r) == IF catan.round = 2 THEN TilesAround(vertex, r) ELSE 0
        IN  /\ vertex \in DOMAIN catan'.vertex_building \ DOMAIN catan.vertex_building
            /\ \A r \in ResourceTypes :
                /\ catan'.p_resource_amounts[p][r] = catan.p_resource_amounts[p][r] + Grant(r)
                /\ catan'.resource_amounts[r] = catan.resource_amounts[r] - Grant(r)
            /\ \A color \in _color_to_player(catan) \ {p} :
                catan'.p_resource_amounts[color] = catan.p_resource_amounts[color]]_vars

\* A round-2 placement next to the desert gave two cards, and one next to
\* two fields and a pasture gave two grain and a wool.
C13_Witness ==
    /\ Accepted /\ last.action = BUILD_SET_UP /\ Before.round = 2
    /\ Len(shadow) = 2 /\ shadow[1].accepted /\ shadow[1].before.round = 2
    /\ {52, 40} \subseteq DOMAIN catan.vertex_building \ DOMAIN shadow[1].before.vertex_building
    /\ LET first == turn(shadow[1].before)
           second == turn(Before)
       IN  \E a, b \in {first, second} :
             /\ a # b
             /\ catan.vertex_building[52].color = a /\ catan.vertex_building[40].color = b
             /\ Total(catan.p_resource_amounts[a]) = Total(shadow[1].before.p_resource_amounts[a]) + 2
             /\ catan.p_resource_amounts[b]["GRAIN"] = shadow[1].before.p_resource_amounts[b]["GRAIN"] + 2

\* C14: while round <= 2 do_action rejects every action other than
\* BUILD_SET_UP with PhaseError, and once round >= 3 it rejects BUILD_SET_UP
\* with PhaseError; the rejected call changes neither the game nor the history.
C14_PhaseEnforcement ==
    [][(/\ last'.op = "do_action"
        /\ \/ catan.round <= 2 /\ last'.action # BUILD_SET_UP
           \/ catan.round >= 3 /\ last'.action = BUILD_SET_UP)
       => /\ last'.err = PhaseError
          /\ Fields(catan') = Fields(catan)
          /\ catan'._action_stack = catan._action_stack]_vars

\* A purchase was rejected in the second set-up round, after a placement.
C14_Witness ==
    /\ last.op = "do_action" /\ last.err = PhaseError /\ last.action = BUY_DEVELOPMENT_CARD
    /\ catan.round = 2 /\ Len(shadow) = 1 /\ shadow[1].accepted

\* The demand of a color for resource r when the token is rolled: 1 per
\* settlement and 2 per city on each non-robbed tile of that resource bearing the token.
Demand(g, token, color, r) ==
    LET tiles == {t \in TILE_IDXS :
                    /\ tokens[t + 1] = token /\ t \notin g.tile_has_robber
                    /\ TerrainResource(TileTileType[t]) = r}
        spots == UNION {{<<t, v>> : v \in {w \in Range(TileAdjVertices[t]) :
                            HasBuilding(g, w) /\ g.vertex_building[w].color = color}} : t \in tiles}
    IN  Cardinality(spots)
        + Cardinality({s \in spots : g.vertex_building[s[2]].building_type = CITY})

\* What the scarcity rule gives a color of resource r.
ScarcityYield(g, token, color, r) ==
    LET receivers == {c \in _color_to_player(g) : Demand(g, token, c, r) > 0}
        total == SumSeq([i \in DOMAIN g.players |-> Demand(g, token, g.players[i], r)])
        supply == g.resource_amounts[r]
    IN  IF total > supply /\ Cardinality(receivers) > 1 THEN 0
        ELSE IF Cardinality(receivers) = 1 THEN Min(Demand(g, token, color, r), supply)
        ELSE Demand(g, token, color, r)

\* C15: produce_resources(token) gives, of each resource type, nothing to
\* anybody when the total demand for the type over all non-robbed tiles
\* bearing the token exceeds the bank's supply and more than one player
\* would receive it; min(demand, supply) to the only receiver when there is
\* exactly one; the full demand to everybody otherwise.
C15_ScarcityRule ==
    [][(last'.op = "do_action" /\ last'.err = None /\ last'.action = PRODUCE_RESOURCES) =>
        LET token == catan'._action_stack[Len(catan'._action_stack)].extra[1]
        IN  \A color \in _color_to_player(catan), r \in ResourceTypes :
                catan'.p_resource_amounts[color][r] =
                    catan.p_resource_amounts[color][r] + ScarcityYield(catan, token, color, r)]_vars

\* The call was a robber move: MOVE_ROBBER or a knight play; its target tile.
RobberMove(call) ==
    \/ call.action = MOVE_ROBBER
    \/ call.action = PLAY_DEVELOPMENT_CARD /\ call.extra[1] = KNIGHT
RobberTarget(call) == IF call.action = MOVE_ROBBER THEN call.extra[1] ELSE call.extra[2]
RobberVictim(call) == IF call.action = MOVE_ROBBER THEN call.extra[2] ELSE call.extra[3]

\* Exactly one tile has the robber and it is robber_tile; the desert during set-up.
OneRobber(g) ==
    /\ g.tile_has_robber = {g.robber_tile}
    /\ g.robber_tile \in TILE_IDXS
    /\ is_set_up(g) => g.robber_tile = desert_tile_idx

\* The robber is where the most recent successful and not undone robber move
\* put it: an accepted robber move puts it on its target, an undo of a
\* robber move takes it back, and no other call moves it.
RobberFollowsMoves ==
    /\ (last'.op = "do_action" /\ last'.err = None /\ RobberMove(last'))
          => catan'.robber_tile = RobberTarget(last') /\ catan'.robber_tile # catan.robber_tile
    /\ (last'.op = "do_action" /\ ~(last'.err = None /\ RobberMove(last')))
          => catan'.robber_tile = catan.robber_tile
    /\ (last'.op = "undo_action" /\ undone' # <<>> /\ undone'[1].accepted)
          => catan'.robber_tile = undone'[1].before.robber_tile
    /\ (last'.op = "undo_action" /\ ~(undone' # <<>> /\ undone'[1].accepted))
          => catan'.robber_tile = catan.robber_tile

BuiltOnTile(g, tile, color) ==
    \E v \in Range(TileAdjVertices[tile]) : HasBuilding(g, v) /\ g.vertex_building[v].color = color

\* Exactly one card went from one hand to the other and nothing else moved.
OneCardMoved(g, h, from, to) ==
    /\ h.resource_amounts = g.resource_amounts
    /\ \A color \in _color_to_player(g) \ {from, to} :
          h.p_resource_amounts[color] = g.p_resource_amounts[color]
    /\ \E r \in ResourceTypes :
          /\ g.p_resource_amounts[from][r] > 0
          /\ h.p_resource_amounts[from] = [g.p_resource_amounts[from] EXCEPT ![r] = @ - 1]
          /\ h.p_resource_amounts[to] = [g.p_resource_amounts[to] EXCEPT ![r] = @ + 1]

NoCardMoved(g, h) ==
    /\ h.resource_amounts = g.resource_amounts
    /\ h.p_resource_amounts = g.p_resource_amounts

\* A robber move was accepted or rejected.
RobberMoveMade == last'.op = "do_action" /\ RobberMove(last')

\* What an accepted move that names no victim, and every rejected move, satisfies.
NoVictimAndRejections ==
    LET p == turn(catan)
        tile == RobberTarget(last')
        victim == RobberVictim(last')
    IN  /\ (last'.err = None /\ victim = None) =>
              /\ \A color \in _color_to_player(catan) \ {p} :
                    BuiltOnTile(catan, tile, color) => ~HasAnyResource(catan, color)
              /\ NoCardMoved(catan, catan')
        /\ last'.err # None => Fields(catan') = Fields(catan)

OwnsHarbor(g, color, harbor_type) ==
    \E v \in DOMAIN g.vertex_building :
        g.vertex_building[v].color = color /\ VertexHarborType[v] = harbor_type

\* The number of cards a maritime trade of the resource costs the color.
TradeRate(g, color, resource_type_out) ==
    IF OwnsHarbor(g, color, resource_type_out) THEN 2
    ELSE IF OwnsHarbor(g, color, GENERIC) THEN 3
    ELSE 4

\* C18: a successful maritime_trade(out, in) takes from the active player
\* exactly 2 cards of type out with the harbor of that type, else 3 with a
\* generic harbor, else 4, and gives 1 card of type in, the bank changing
\* by the opposite amounts; the trade is rejected when out = in, when the
\* bank holds no card of type in, or when the player holds fewer cards of
\* type out than the rate.
C18_MaritimeTradeRate ==
    [][(last'.op = "do_action" /\ last'.action = TRADE_MARITIME) =>
        LET p == turn(catan)
            out == last'.extra[1]
            in == last'.extra[2]
            rate == TradeRate(catan, p, out)
            Moved(r) == IF r = out THEN -rate ELSE IF r = in THEN 1 ELSE 0
        IN  /\ last'.err = None =>
                /\ out # in
                /\ \A r \in ResourceTypes :
                    /\ catan'.p_resource_amounts[p][r] = catan.p_resource_amounts[p][r] + Moved(r)
                    /\ catan'.resource_amounts[r] = catan.resource_amounts[r] - Moved(r)
                /\ \A color \in _color_to_player(catan) \ {p} :
                    catan'.p_resource_amounts[color] = catan.p_resource_amounts[color]
            /\ (\/ out = in
                \/ catan.resource_amounts[in] = 0
                \/ catan.p_resource_amounts[p][out] < rate) => last'.err # None]_vars

\* A trade at the rate of a generic harbor was accepted.
C18_Witness ==
    /\ Accepted /\ last.action = TRADE_MARITIME
    /\ TradeRate(Before, turn(Before), last.extra[1]) = 3
    /\ catan.p_resource_amounts[turn(Before)][last.extra[1]]
          = Before.p_resource_amounts[turn(Before)][last.extra[1]] - 3

\* The development cards in the hand of the color.
CardsOf(g, color) == Range(g.p_development_cards[color])

\* The color holds a playable card of the type.
HoldsPlayable(g, color, card_type) ==
    \E card \in CardsOf(g, color) : CardType(card) = card_type /\ CardPlayable(g, card)

\* The card bought by the last call is in the buyer's hand and not playable.
BoughtCardUnplayable ==
    (last'.action = BUY_DEVELOPMENT_CARD /\ last'.err = None) =>
        LET hand == catan'.p_development_cards[turn(catan)]
        IN  /\ Len(hand) = Len(catan.p_development_cards[turn(catan)]) + 1
            /\ ~CardPlayable(catan', hand[Len(hand)])

\* A call other than a successful END_TURN makes no card in a hand playable.
OnlyEndTurnFlips ==
    ~(last'.action = END_TURN /\ last'.err = None) =>
        \A color \in _color_to_player(catan) :
            \A card \in CardsOf(catan', color) :
                CardPlayable(catan', card) =>
                    card \in CardsOf(catan, color) /\ CardPlayable(catan, card)

\* A successful END_TURN makes playable the ending player's cards other than
\* victory points and changes no other card.
EndTurnFlipsOwnCards ==
    (last'.action = END_TURN /\ last'.err = None) =>
        \A color \in _color_to_player(catan) :
            /\ catan'.p_development_cards[color] = catan.p_development_cards[color]
            /\ \A card \in CardsOf(catan, color) :
                CardPlayable(catan', card) <=>
                    \/ CardPlayable(catan, card)
                    \/ color = turn(catan) /\ CardType(card) # VICTORY_POINT

\* The player to move plays a card type of which they hold a card but no
\* playable one.
UnplayablePlay ==
    /\ last'.action = PLAY_DEVELOPMENT_CARD
    /\ ~is_set_up(catan)
    /\ \E card \in CardsOf(catan, turn(catan)) : CardType(card) = last'.extra[1]
    /\ ~HoldsPlayable(catan, turn(catan), last'.extra[1])

\* The call is a road building play with an edge index out of range.
InvalidEdgeIdx(extra) ==
    /\ extra[1] = ROAD_BUILDING
    /\ extra[2] \notin EDGE_IDXS \/ (extra[3] # NoIdx /\ extra[3] \notin EDGE_IDXS)

\* No victory-point card in a hand is playable.
VictoryPointsUnplayable(g) ==
    \A color \in _color_to_player(g) :
        \A card \in CardsOf(g, color) : CardType(card) = VICTORY_POINT => ~CardPlayable(g, card)

legal_robber_moves_any_tile(g) ==
    LET player == turn(g)
        Moves(tile_idx) ==
            IF ColorsOnTile(g, tile_idx, player) = {}
            THEN {<<tile_idx, None>>}
            ELSE {<<tile_idx, color_to_take_from>> :
                    color_to_take_from \in ColorsOnTile(g, tile_idx, player)}
    IN  UNION {Moves(tile_idx) : tile_idx \in TILE_IDXS}

\* Catan.legal_robber_moves: the (tile, victim) pairs it yields.
legal_robber_moves(g) ==
    LET player == turn(g)
        Moves(tile_idx) ==
            IF ColorsOnTile(g, tile_idx, player) = {}
            THEN {<<tile_idx, None>>}
            ELSE {<<tile_idx, color_to_take_from>> :
                    color_to_take_from \in ColorsOnTile(g, tile_idx, player)}
    IN  UNION {Moves(tile_idx) : tile_idx \in TILE_IDXS \ {g.robber_tile}}

\* Catan.legal_set_ups: the (vertex, edge) pairs it yields.
legal_set_ups(g) ==
    IF ~is_set_up(g) THEN {}
    ELSE UNION {{<<vertex_idx, edge_idx>> :
                    edge_idx \in Range(VertexAdjEdges[vertex_idx]) \ DOMAIN g.edge_road} :
                vertex_idx \in {v \in VERTEX_IDXS :
                    ~HasBuilding(g, v) /\ v \notin g._distance_rule_vertices}}

\* An action as legal_actions yields it: the action and its arguments.
Yield(action, extra) == [action |-> action, extra |-> extra]

\* A variant of EndTurnOption that offers nothing.
EndTurnOption_missing(g) == {}

\* Catan.legal_actions: yield Action.END_TURN,
EndTurnOption(g) == {Yield(END_TURN, <<>>)}

\* Catan.legal_actions: the actions it yields.
legal_actions(g) ==
    IF is_set_up(g) \/ is_game_over(g) THEN {}
    ELSE
    LET player == turn(g)
        valid_edges == {edge_idx \in EDGE_IDXS :
                          edge_idx \notin DOMAIN g.edge_road
                          /\ edge_idx \in g._connected_edges[player]}
        supply == g.resource_amounts
        build_city ==
            IF g.cities_left[player] > 0 /\ CanPay(g, player, CITY_COST)
            THEN {Yield(BUILD_CITY, <<vertex_idx>>) :
                    vertex_idx \in {v \in VERTEX_IDXS : ~NotOwnSettlement(g, v, player)}}
            ELSE {}
        build_settlement ==
            IF g.settlements_left[player] > 0 /\ CanPay(g, player, SETTLEMENT_COST)
            THEN {Yield(BUILD_SETTLEMENT, <<vertex_idx>>) :
                    vertex_idx \in {v \in VERTEX_IDXS :
                        /\ ~HasBuilding(g, v)
                        /\ v \notin g._distance_rule_vertices
                        /\ v \in g._connected_vertices[player]}}
            ELSE {}
        buy_development_card ==
            IF g.development_cards # <<>> /\ CanPay(g, player, DEVELOPMENT_CARD_COST)
            THEN {Yield(BUY_DEVELOPMENT_CARD, <<>>)}
            ELSE {}
        build_road ==
            IF g.roads_left[player] > 0 /\ CanPay(g, player, ROAD_COST)
            THEN {Yield(BUILD_ROAD, <<edge_idx>>) : edge_idx \in valid_edges}
            ELSE {}
        knight ==
            {Yield(PLAY_DEVELOPMENT_CARD, <<KNIGHT>> \o move) : move \in legal_robber_moves(g)}
        road_building ==
            IF g.roads_left[player] = 0 THEN {}
            ELSE IF g.roads_left[player] = 1
            THEN {Yield(PLAY_DEVELOPMENT_CARD, <<ROAD_BUILDING, edge_idx_1, NoIdx>>) :
                    edge_idx_1 \in valid_edges}
            ELSE {Yield(PLAY_DEVELOPMENT_CARD, <<ROAD_BUILDING, edges[1], edges[2]>>) :
                    edges \in {pair \in valid_edges \X valid_edges : pair[1] # pair[2]}}
        one_left == {r \in ResourceTypes : supply[r] > 0}
        year_of_plenty ==
            IF one_left = {} THEN {}
            ELSE IF Cardinality(one_left) = 1 /\ \A r \in one_left : supply[r] = 1
            THEN {Yield(PLAY_DEVELOPMENT_CARD, <<YEAR_OF_PLENTY, r, None>>) : r \in one_left}
            ELSE {Yield(PLAY_DEVELOPMENT_CARD, <<YEAR_OF_PLENTY, pair[1], pair[2]>>) :
                    pair \in {p \in ResourceTypes \X ResourceTypes :
                        /\ supply[p[1]] # 0
                        /\ supply[p[2]] > (IF p[2] = p[1] THEN 1 ELSE 0)}}
        monopoly ==
            {Yield(PLAY_DEVELOPMENT_CARD, <<MONOPOLY, r>>) : r \in ResourceTypes}
        Plays(card_type) ==
            CASE card_type = KNIGHT -> knight
              [] card_type = ROAD_BUILDING -> road_building
              [] card_type = YEAR_OF_PLENTY -> year_of_plenty
              [] card_type = MONOPOLY -> monopoly
              [] OTHER -> {}
        play_development_card ==
            UNION {Plays(CardType(card)) :
                     card \in {c \in Range(g.p_development_cards[player]) : CardPlayable(g, c)}}
        trade_maritime ==
            {Yield(TRADE_MARITIME, <<pair[1], pair[2]>>) :
                pair \in {p \in ResourceTypes \X ResourceTypes :
                    /\ g.p_resource_amounts[player][p[1]] >= MaritimeRate(g, player, p[1])
                    /\ p[2] # p[1]
                    /\ supply[p[2]] # 0}}
    IN  build_city \cup build_settlement \cup buy_development_card \cup build_road
        \cup play_development_card \cup EndTurnOption(g) \cup trade_maritime

\* The resources a call of the yielded action may take from its victim.
TakesOf(g, yielded) ==
    IF yielded.action = PLAY_DEVELOPMENT_CARD /\ yielded.extra[1] = KNIGHT
    THEN TakeInputs(g, yielded.extra[3])
    ELSE {None}

Enumerated(action) ==
    action \in {BUILD_CITY, BUILD_SETTLEMENT, BUILD_ROAD, BUY_DEVELOPMENT_CARD,
                PLAY_DEVELOPMENT_CARD, TRADE_MARITIME, END_TURN}

\* C21: in every reachable state outside set-up (here: of a game that is
\* not over), every build-city, build-settlement, build-road,
\* buy-development-card, play-development-card, maritime-trade and end-turn
\* action that do_action accepts in that state is yielded by legal_actions
\* in that state.
C21_EnumeratorExhaustiveness ==
    [][(/\ last'.op = "do_action" /\ last'.err = None
        /\ Enumerated(last'.action)
        /\ ~is_set_up(catan) /\ ~is_game_over(catan)) =>
            Yield(last'.action, last'.extra) \in legal_actions(catan)]_vars

\* C22: in every reachable state that is not in the set-up phase,
\* legal_actions yields END_TURN.
C22_EndTurnOffered_AsStated ==
    ~is_set_up(catan) => Yield(END_TURN, <<>>) \in legal_actions(catan)

\* C22, amended: in every reachable state that is not in the set-up phase
\* and in which no player has won, legal_actions yields END_TURN; once the
\* game is over legal_actions yields nothing.
C22_EndTurnOffered ==
    /\ (~is_set_up(catan) /\ ~is_game_over(catan)) =>
            Yield(END_TURN, <<>>) \in legal_actions(catan)
    /\ is_game_over(catan) => legal_actions(catan) = {}

\* After a successful call the game is past set-up and not over, and the
\* player to move is offered END_TURN.
C22_Witness ==
    /\ Accepted /\ ~is_set_up(catan) /\ ~is_game_over(catan)
    /\ Yield(END_TURN, <<>>) \in legal_actions(catan)

(***************************************************************************)
(* Construction of the board: Catan(tile_types, tokens, harbor_types).     *)
(* An argument is a record: supplied is FALSE for Python's None, and list  *)
(* is the list passed.  The empty token (None in a token list) is 0.       *)
(***************************************************************************)
BASE_TILE_TYPES ==
    <<"DESERT", "HILLS", "HILLS", "HILLS", "FOREST", "FOREST", "FOREST", "FOREST",
      "MOUNTAINS", "MOUNTAINS", "MOUNTAINS", "FIELDS", "FIELDS", "FIELDS", "FIELDS",
      "PASTURE", "PASTURE", "PASTURE", "PASTURE">>
BASE_TOKENS == <<5, 2, 6, 3, 8, 10, 9, 12, 11, 4, 8, 10, 9, 4, 5, 6, 3, 11, 0>>
BASE_HARBOR_TYPES ==
    <<"BRICK", "LUMBER", "ORE", "GRAIN", "WOOL", GENERIC, GENERIC, GENERIC, GENERIC>>
HarborTypes == ResourceTypes \cup {GENERIC}
CORNER_TILE_IDXS == {0, 2, 4, 6, 8, 10}

NotGiven == [supplied |-> FALSE, list |-> <<>>]
Given(list) == [supplied |-> TRUE, list |-> list]

\* list.count(x)
Count(list, x) == Cardinality({i \in DOMAIN list : list[i] = x})

\* list.index(x), for a list that holds x
Index(list, x) == (CHOOSE i \in DOMAIN list : list[i] = x /\ \A j \in 1..(i - 1) : list[j] # x) - 1

\* list.insert(k, x)
Insert(list, k, x) == SubSeq(list, 1, k) \o <<x>> \o SubSeq(list, k + 1, Len(list))

\* list[-n:] + list[:-n], for 1 <= n <= len(list)
Rotate(list, n) ==
    SubSeq(list, Len(list) - n + 1, Len(list)) \o SubSeq(list, 1, Len(list) - n)

\* list[:1] + list[:0:-1]
FirstThenReversed(list) == <<list[1]>> \o [i \in 1..(Len(list) - 1) |-> list[Len(list) + 1 - i]]

\* A variant of Validate that does not compare the places of the empty token
\* and of the desert.
Validate_desert_unchecked(player_colors, given_tile_types, given_tokens, given_harbor_types) ==
    IF ~(2 <= Len(player_colors) /\ Len(player_colors) <= 4) THEN ValueError
    ELSE IF Cardinality(Range(player_colors)) # Len(player_colors) THEN ValueError
    ELSE IF given_tile_types.supplied # given_tokens.supplied THEN ValueError
    ELSE IF /\ given_tile_types.supplied
            /\ ~ (/\ Len(given_tile_types.list) = Len(BASE_TILE_TYPES)
                  /\ \A tile_type \in Range(TileType) :
                        Count(given_tile_types.list, tile_type) = Count(BASE_TILE_TYPES, tile_type))
         THEN ValueError
    ELSE IF /\ given_tokens.supplied
            /\ ~ (/\ Len(given_tokens.list) = Len(BASE_TOKENS)
                  /\ \A token \in TOKENS :
                        Count(given_tokens.list, token) = Count(BASE_TOKENS, token))
         THEN ValueError
    ELSE IF /\ given_harbor_types.supplied
            /\ ~ (/\ Len(given_harbor_types.list) = Len(BASE_HARBOR_TYPES)
                  /\ \A harbor_type \in HarborTypes :
                        Count(given_harbor_types.list, harbor_type)
                            = Count(BASE_HARBOR_TYPES, harbor_type))
         THEN ValueError
    ELSE None

\* Catan.__init__: the checks of its arguments; the error raised, or None.
Validate(player_colors, given_tile_types, given_tokens, given_harbor_types) ==
    IF ~(2 <= Len(player_colors) /\ Len(player_colors) <= 4) THEN ValueError
    ELSE IF Cardinality(Range(player_colors)) # Len(player_colors) THEN ValueError
    ELSE IF given_tile_types.supplied # given_tokens.supplied THEN ValueError
    ELSE IF /\ given_tile_types.supplied
            /\ ~ (/\ Len(given_tile_types.list) = Len(BASE_TILE_TYPES)
                  /\ \A tile_type \in Range(TileType) :
                        Count(given_tile_types.list, tile_type) = Count(BASE_TILE_TYPES, tile_type))
         THEN ValueError
    ELSE IF /\ given_tokens.supplied
            /\ ~ (/\ Len(given_tokens.list) = Len(BASE_TOKENS)
                  /\ \A token \in TOKENS :
                        Count(given_tokens.list, token) = Count(BASE_TOKENS, token))
         THEN ValueError
    \* tokens.index(None) raises ValueError when the list holds no None
    ELSE IF given_tokens.supplied /\ 0 \notin Range(given_tokens.list) THEN ValueError
    ELSE IF /\ given_tokens.supplied
            /\ Index(given_tokens.list, 0) # Index(given_tile_types.list, "DESERT")
         THEN ValueError
    ELSE IF /\ given_harbor_types.supplied
            /\ ~ (/\ Len(given_harbor_types.list) = Len(BASE_HARBOR_TYPES)
                  /\ \A harbor_type \in HarborTypes :
                        Count(given_harbor_types.list, harbor_type)
                            = Count(BASE_HARBOR_TYPES, harbor_type))
         THEN ValueError
    ELSE None

\* A variant of DefaultTokens that lays the tokens out as if the desert were
\* the centre tile, wherever it is.
DefaultTokens_desert_in_centre(desert_idx, starting_tile_idx) ==
    FirstThenReversed(Rotate(SubSeq(BASE_TOKENS, 1, 12), 12 - starting_tile_idx))
        \o FirstThenReversed(Rotate(SubSeq(BASE_TOKENS, 13, 18), (12 - starting_tile_idx) \div 2))
        \o <<0>>

\* _CatanBoard.__init__ with tokens None: the tokens laid out in a spiral from
\* the corner tile starting_tile_idx, the empty token on the desert.
DefaultTokens(desert_idx, starting_tile_idx) ==
    LET starting_offset == 12 - starting_tile_idx
        outer_0 == SubSeq(BASE_TOKENS, 1, 12)
        inner_0 == SubSeq(BASE_TOKENS, 13, 18)
        outer_1 == IF desert_idx < 12
                   THEN Insert(outer_0, (11 + (1 - desert_idx) + starting_tile_idx) % 12, 0)
                   ELSE outer_0
        outer_2 == IF desert_idx < 12 THEN SubSeq(outer_1, 1, 12) ELSE outer_1
        inner_1 == IF desert_idx < 12 THEN <<outer_1[13]>> \o inner_0
                   ELSE IF desert_idx < 18
                   THEN Insert(inner_0,
                               (5 + (13 - desert_idx) + starting_tile_idx \div 2) % 6, 0)
                   ELSE Append(inner_0, 0)
        center == <<inner_1[7]>>
        inner_2 == SubSeq(inner_1, 1, 6)
        outer_3 == FirstThenReversed(Rotate(outer_2, starting_offset))
        inner_3 == FirstThenReversed(Rotate(inner_2, starting_offset \div 2))
    IN  outer_3 \o inner_3 \o center

\* _CatanBoard.__init__: the board built from the three lists.
_CatanBoard(board_tile_types, board_tokens, board_harbor_types) ==
    [ tile_types |-> board_tile_types,
      tokens |-> board_tokens,
      harbor_types |-> board_harbor_types,
      robber_tile |-> Index(board_tile_types, "DESERT"),
      tile_has_robber |-> {i - 1 : i \in {j \in DOMAIN board_tile_types :
                                              board_tile_types[j] = "DESERT"}} ]

\* Lists a caller may pass: right ones, and ones wrong in length, in counts
\* or in the place of the empty token.
DesertFirstTokens == <<0>> \o SubSeq(BASE_TOKENS, 1, 18)
TileTypeLists ==
    {NotGiven, Given(tile_types), Given(BASE_TILE_TYPES),
     Given(SubSeq(tile_types, 1, 18)), Given(Append(tile_types, "HILLS")),
     Given([tile_types EXCEPT ![1] = "DESERT"])}
TokenLists ==
    {NotGiven, Given(tokens), Given(BASE_TOKENS), Given(DesertFirstTokens),
     Given(SubSeq(tokens, 1, 18)), Given([tokens EXCEPT ![1] = 6]),
     Given([tokens EXCEPT ![19] = 7])}
HarborTypeLists ==
    {NotGiven, Given(harbor_types), Given(Reverse(harbor_types)),
     Given(SubSeq(harbor_types, 1, 8)), Given([harbor_types EXCEPT ![1] = GENERIC])}

\* Outcomes of shuffle(tile_types) and shuffle(harbor_types).
ShuffledTileTypes ==
    {tile_types, BASE_TILE_TYPES, [tile_types EXCEPT ![13] = "DESERT", ![19] = "FIELDS"]}
ShuffledHarborTypes == {harbor_types, Reverse(harbor_types)}

\* The arguments of a call of Catan(...) that has not been made yet.
BoardInit ==
    /\ catan = [err |-> None]
    /\ \E given_tile_types \in TileTypeLists, given_tokens \in TokenLists,
          given_harbor_types \in HarborTypeLists :
            last = [op |-> "arguments", action |-> None,
                    extra |-> <<given_tile_types, given_tokens, given_harbor_types>>,
                    err |-> None, immediate |-> FALSE]
    /\ shadow = <<>>
    /\ undone = <<>>
    /\ pattern = "do"
    /\ rejections = 0

\* Catan(colors=colors, tile_types=..., tokens=..., harbor_types=...): a
\* raise leaves no game; otherwise the board is built, with shuffled lists in
\* the place of the ones not supplied.
Construct ==
    /\ last.op = "arguments"
    /\ \E error \in {Validate(colors, last.extra[1], last.extra[2], last.extra[3])} :
        /\ last' = [last EXCEPT !.op = "Catan", !.err = error]
        /\ IF error # None
           THEN catan' = catan
           ELSE \E board_tile_types \in
                      IF last.extra[1].supplied THEN {last.extra[1].list} ELSE ShuffledTileTypes,
                   board_harbor_types \in
                      IF last.extra[3].supplied THEN {last.extra[3].list} ELSE ShuffledHarborTypes,
                   starting_tile_idx \in CORNER_TILE_IDXS :
                    catan' = _CatanBoard(
                        board_tile_types,
                        IF last.extra[2].supplied THEN last.extra[2].list
                        ELSE DefaultTokens(Index(board_tile_types, "DESERT"), starting_tile_idx),
                        board_harbor_types)
    /\ UNCHANGED <<shadow, undone, pattern, rejections>>

BoardSpec == BoardInit /\ [][Construct]_vars

\* The two lists hold the same elements the same number of times.
SameMultiset(list, base) ==
    /\ Len(list) = Len(base)
    /\ \A x \in Range(list) \cup Range(base) : Count(list, x) = Count(base, x)

\* The listed failures, for the lists that were supplied.
ListedFailure(given_tile_types, given_tokens, given_harbor_types) ==
    \/ given_tile_types.supplied /\ ~SameMultiset(given_tile_types.list, BASE_TILE_TYPES)
    \/ given_tokens.supplied /\ ~SameMultiset(given_tokens.list, BASE_TOKENS)
    \/ /\ given_tile_types.supplied /\ given_tokens.supplied
       /\ \E i \in DOMAIN given_tokens.list :
            given_tokens.list[i] = 0
            /\ (i \notin DOMAIN given_tile_types.list \/ given_tile_types.list[i] # "DESERT")
    \/ given_harbor_types.supplied /\ ~SameMultiset(given_harbor_types.list, BASE_HARBOR_TYPES)

\* C23 as stated: constructing a game with caller-supplied tile types, tokens or harbor
\* types fails with a validation error, and creates no game, whenever the tile
\* types are not the 19 required ones, the tokens are not the required ones
\* with one empty token, the empty token is not at the index of the desert, or
\* the harbors are not the 9 required ones; and it succeeds when all match.
C23_BoardValidation_AsStated ==
    last.op = "Catan" =>
        /\ ListedFailure(last.extra[1], last.extra[2], last.extra[3]) =>
              last.err = ValueError /\ catan = [err |-> None]
        /\ ~ListedFailure(last.extra[1], last.extra[2], last.extra[3]) => last.err = None

\* C23: as stated above, and the construction also fails when one of tile
\* types and tokens is supplied without the other.
C23_BoardValidation ==
    last.op = "Catan" =>
        LET listed == ListedFailure(last.extra[1], last.extra[2], last.extra[3])
            unpaired == last.extra[1].supplied # last.extra[2].supplied
        IN  /\ (listed \/ unpaired) => last.err = ValueError /\ catan = [err |-> None]
            /\ ~(listed \/ unpaired) =>
                  /\ last.err = None
                  /\ SameMultiset(catan.tile_types, BASE_TILE_TYPES)
                  /\ SameMultiset(catan.tokens, BASE_TOKENS)
                  /\ SameMultiset(catan.harbor_types, BASE_HARBOR_TYPES)
                  /\ catan.tokens[catan.robber_tile + 1] = 0

\* A construction failed only because the empty token was not on the desert.
C23_Witness ==
    /\ last.op = "Catan" /\ last.err = ValueError
    /\ last.extra[1].supplied /\ SameMultiset(last.extra[1].list, BASE_TILE_TYPES)
    /\ last.extra[2].supplied /\ SameMultiset(last.extra[2].list, BASE_TOKENS)
    /\ last.extra[3].supplied /\ SameMultiset(last.extra[3].list, BASE_HARBOR_TYPES)

(***************************************************************************)
(* Domestic trade.  Catan._domestic_trade exchanges resources between the  *)
(* player to move and one other player; the two dictionaries are functions *)
(* from the resource types they name to amounts.  do_action's branch for   *)
(* Action.TRADE_DOMESTIC raises NotImplementedError before it reaches the  *)
(* trade.                                                                  *)
(***************************************************************************)
_domestic_trade(g, resource_amounts_out, resource_amounts_in, color_to_trade_with) ==
    LET player == turn(g)
        player_to_trade_with == color_to_trade_with
    IN  IF color_to_trade_with \notin _color_to_player(g) THEN Raise(g, ValueError)
        ELSE IF color_to_trade_with = player THEN Raise(g, ValueError)
        ELSE IF Cardinality(DOMAIN resource_amounts_out) <= 0 THEN Raise(g, ValueError)
        ELSE IF Cardinality(DOMAIN resource_amounts_in) <= 0 THEN Raise(g, ValueError)
        ELSE IF ~(\A r \in DOMAIN resource_amounts_out : resource_amounts_out[r] > 0)
        THEN Raise(g, ValueError)
        ELSE IF ~(\A r \in DOMAIN resource_amounts_in : resource_amounts_in[r] > 0)
        THEN Raise(g, ValueError)
        ELSE IF \E r \in DOMAIN resource_amounts_out : r \in DOMAIN resource_amounts_in
        THEN Raise(g, ValueError)
        ELSE IF ~(\A r \in DOMAIN resource_amounts_out :
                    g.p_resource_amounts[player][r] >= resource_amounts_out[r])
        THEN Raise(g, InvalidResourcesError)
        ELSE IF ~(\A r \in DOMAIN resource_amounts_in :
                    g.p_resource_amounts[player_to_trade_with][r] >= resource_amounts_in[r])
        THEN Raise(g, InvalidResourcesError)
        ELSE _transfer_resources(
                _transfer_resources(g, player_to_trade_with, player, resource_amounts_in),
                player, player_to_trade_with, resource_amounts_out)

\* A game of three players after set-up and four productions, BLUE to move.
ThreePlayersScript == Produce(5, 1) \o Produce(9, 1) \o Produce(11, 1) \o Produce(10, 1)
ThreePlayers == RunScript(SetUpOf(<<BLUE, ORANGE, RED>>, 6), ThreePlayersScript, 1)
ThreePlayersLater == RunScript(ThreePlayers, EndTurn(1) \o Produce(6, 1) \o Produce(8, 1), 1)

\* Offers: one card of a type, two types, an empty offer, a zero and a
\* negative amount, and more than anybody holds.
TradeAmountsInputs ==
    {[r \in {type} |-> 1] : type \in {"BRICK", "LUMBER", "GRAIN"}}
    \cup {[r \in {"BRICK", "LUMBER"} |-> 1], [r \in {} |-> 0], [r \in {"WOOL"} |-> 0],
          [r \in {"ORE"} |-> 0 - 1], [r \in {"LUMBER"} |-> 19]}

TradeInit ==
    /\ catan \in {ThreePlayers, ThreePlayersLater, MidGame, LastSetUp}
    /\ last = [op |-> "Catan", action |-> None, extra |-> <<>>, err |-> None,
               immediate |-> FALSE]
    /\ shadow = <<>>
    /\ undone = <<>>
    /\ pattern = "do"
    /\ rejections = 0

\* A call of the method itself, as the first call on the game: it keeps no
\* history.
DomesticTrade ==
    /\ last.op = "Catan"
    /\ \E resource_amounts_out \in TradeAmountsInputs,
          resource_amounts_in \in TradeAmountsInputs,
          color_to_trade_with \in {BLUE, ORANGE, RED} :
       \E after \in {_domestic_trade(catan, resource_amounts_out, resource_amounts_in,
                                     color_to_trade_with)} :
        /\ catan' = [after EXCEPT !.err = None]
        /\ last' = [op |-> "_domestic_trade", action |-> TRADE_DOMESTIC,
                    extra |-> <<resource_amounts_out, resource_amounts_in, color_to_trade_with>>,
                    err |-> after.err, immediate |-> FALSE]
        /\ UNCHANGED <<shadow, undone, pattern, rejections>>

\* The same offer submitted through do_action.
DoTradeDomesticOffer ==
    \E resource_amounts_out \in TradeAmountsInputs, resource_amounts_in \in TradeAmountsInputs :
        Do(TRADE_DOMESTIC, <<resource_amounts_out, resource_amounts_in>>, None)

TradeNext == DomesticTrade \/ DoTradeDomesticOffer

TradeSpec == TradeInit /\ [][TradeNext]_vars

\* The conditions the trade states for an offer between the player to move and another player.
TradeConditions(g, resource_amounts_out, resource_amounts_in, color_to_trade_with) ==
    /\ color_to_trade_with \in _color_to_player(g) \ {turn(g)}
    /\ DOMAIN resource_amounts_out # {} /\ DOMAIN resource_amounts_in # {}
    /\ \A r \in DOMAIN resource_amounts_out : resource_amounts_out[r] > 0
    /\ \A r \in DOMAIN resource_amounts_in : resource_amounts_in[r] > 0
    /\ DOMAIN resource_amounts_out \cap DOMAIN resource_amounts_in = {}
    /\ \A r \in DOMAIN resource_amounts_out :
            g.p_resource_amounts[turn(g)][r] >= resource_amounts_out[r]
    /\ \A r \in DOMAIN resource_amounts_in :
            g.p_resource_amounts[color_to_trade_with][r] >= resource_amounts_in[r]

AmountOf(resource_amounts, r) == IF r \in DOMAIN resource_amounts THEN resource_amounts[r] ELSE 0

\* The offered amounts changed hands between the mover and the partner; the
\* bank and every other player hold what they held.
Exchanged(g, h, resource_amounts_out, resource_amounts_in, color_to_trade_with) ==
    /\ \A r \in ResourceTypes :
        /\ h.p_resource_amounts[turn(g)][r] =
              g.p_resource_amounts[turn(g)][r] - AmountOf(resource_amounts_out, r)
                                                + AmountOf(resource_amounts_in, r)
        /\ h.p_resource_amounts[color_to_trade_with][r] =
              g.p_resource_amounts[color_to_trade_with][r] + AmountOf(resource_amounts_out, r)
                                                           - AmountOf(resource_amounts_in, r)
    /\ h.resource_amounts = g.resource_amounts
    /\ \A color \in _color_to_player(g) \ {turn(g), color_to_trade_with} :
            h.p_resource_amounts[color] = g.p_resource_amounts[color]

\* The method alone: a call of _domestic_trade is accepted only if the offer
\* satisfies the trade's conditions, and an accepted call exchanges exactly
\* the offered amounts between the two players.
DomesticTradeMethod ==
    [][last'.op = "_domestic_trade" =>
        /\ last'.err = None <=>
              TradeConditions(catan, last'.extra[1], last'.extra[2], last'.extra[3])
        /\ last'.err = None =>
              Exchanged(catan, catan', last'.extra[1], last'.extra[2], last'.extra[3])
        /\ last'.err # None => catan' = catan]_vars

\* C24: domestic trade: a trade between the player to move and one other
\* player is accepted only if both offers are non-empty with positive
\* amounts, share no resource type and are held by the side that offers
\* them; an accepted trade exchanges the offered amounts between exactly
\* those two players, the bank and the other players unchanged; and an
\* Action.TRADE_DOMESTIC submitted through do_action performs this trade:
\* when some other player could trade on the offer, the offered amounts
\* change hands between the mover and one such player.
C24_DomesticTrade ==
    [][/\ last'.op = "_domestic_trade" =>
            /\ last'.err = None =>
                  /\ TradeConditions(catan, last'.extra[1], last'.extra[2], last'.extra[3])
                  /\ Exchanged(catan, catan', last'.extra[1], last'.extra[2], last'.extra[3])
       /\ (/\ last'.op = "do_action" /\ last'.action = TRADE_DOMESTIC
           /\ ~is_set_up(catan) /\ ~is_game_over(catan)
           /\ \E color \in _color_to_player(catan) :
                 TradeConditions(catan, last'.extra[1], last'.extra[2], color))
          => /\ last'.err = None
             /\ \E color \in _color_to_player(catan) :
                   /\ TradeConditions(catan, last'.extra[1], last'.extra[2], color)
                   /\ Exchanged(catan, catan', last'.extra[1], last'.extra[2], color)]_vars

\* An accepted trade of the method in a game of three players.
C24_Witness ==
    /\ last.op = "_domestic_trade" /\ last.err = None
    /\ Cardinality(_color_to_player(catan)) = 3

(***************************************************************************)
(* Longest road.  Catan.__build_road recomputes the longest road of the    *)
(* component the new road joins and keeps the larger of it and the value   *)
(* tracked so far.                                                         *)
(***************************************************************************)
\* Pairs of edges for a Road Building play: those of RoadBuildingInputs, a
\* second edge that only the first one connects (45, 46), a second edge on
\* another branch of the player's roads (45, 59), and the same edge twice.
RoadPairInputs == RoadBuildingInputs \cup {<<45, 46>>, <<45, 59>>, <<45, 45>>}

DoPlayRoadBuildingPair ==
    /\ CanCall
    /\ \E edges \in RoadPairInputs :
        Do(PLAY_DEVELOPMENT_CARD, <<ROAD_BUILDING, edges[1], edges[2]>>, None)

RoadInit ==
    /\ catan \in {BuildGame, RoadRace, Settled, MidGame, SecondRound, LastSetUp}
    /\ last = [op |-> "Catan", action |-> None, extra |-> <<>>, err |-> None,
               immediate |-> FALSE]
    /\ shadow = <<>>
    /\ undone = <<>>
    /\ pattern = "do"
    /\ rejections = 0

\* The calls that place roads and buildings, the calls that pay for them
\* and pass the turn, and undo_action.
RoadNext ==
    \/ DoBuildSetUp
    \/ DoBuildRoad
    \/ DoPlayRoadBuildingPair
    \/ DoBuildSettlement
    \/ DoProduceResources
    \/ DoEndTurn
    \/ Undo

RoadSpec == RoadInit /\ [][RoadNext]_vars

\* The edges that carry a road of the colour.
RoadsOnBoard(g, color) == {e \in DOMAIN g.edge_road : g.edge_road[e] = color}

\* A do_action that placed a road of the player to move and was accepted.
RoadPlacement ==
    /\ last'.op = "do_action" /\ last'.err = None
    /\ \/ last'.action \in {BUILD_ROAD, BUILD_SET_UP}
       \/ last'.action = PLAY_DEVELOPMENT_CARD /\ last'.extra[1] = ROAD_BUILDING

\* The tracked value never exceeds the number of the player's roads.
LongestRoadWithinRoads(g) ==
    \A color \in _color_to_player(g) :
        g.longest_road[color] <= Cardinality(RoadsOnBoard(g, color))

\* Across a road placement of the player to move
\* (BUILD_ROAD, a set-up road, Road Building) the player's tracked
\* longest_road never decreases.
LongestRoadNeverDecreases ==
    [][RoadPlacement => catan'.longest_road[turn(catan)] >= catan.longest_road[turn(catan)]]_vars

\* C25: longest-road monotonicity: across a player's own road placements
\* (BUILD_ROAD, set-up roads, Road Building) the tracked longest_road never
\* decreases, and in every reachable state it never exceeds the number of
\* that player's roads on the board.
C25_LongestRoadMonotonic == LongestRoadNeverDecreases /\ []LongestRoadWithinRoads(catan)

\* A Road Building play raised the player's longest road with its first
\* road, and its second road joined a shorter component: the tracked value
\* stayed above that component's length and below the number of roads.
C25_Witness ==
    /\ last.op = "do_action" /\ last.err = None
    /\ last.action = PLAY_DEVELOPMENT_CARD /\ last.extra[1] = ROAD_BUILDING
    /\ last.extra[3] # NoIdx
    /\ shadow # <<>>
    /\ catan.longest_road[turn(catan)] > shadow[Len(shadow)].before.longest_road[turn(catan)]
    /\ ComponentLongestRoad(catan, last.extra[3]) < catan.longest_road[turn(catan)]
    /\ catan.longest_road[turn(catan)] < Cardinality(RoadsOnBoard(catan, turn(catan)))

(***************************************************************************)
(* The robber and production.  _produce_resources skips a tile whose       *)
(* has_robber is set and goes on to the other tiles bearing the token.     *)
(***************************************************************************)
\* The tiles that bear the token.
TilesBearing(token) == {t \in TILE_IDXS : tokens[t + 1] = token}

\* The buildings of the colour on the tile count 1 per settlement, 2 per city.
BuildingsOnTile(g, t, color) ==
    {v \in Range(TileAdjVertices[t]) : HasBuilding(g, v) /\ g.vertex_building[v].color = color}

\* What the bank can pay in full: the demand of all players for r, over the
\* tiles without the robber that bear the token, is within the bank's supply.
FullySupplied(g, token, r) ==
    SumSeq([i \in DOMAIN g.players |-> Demand(g, token, g.players[i], r)]) <= g.resource_amounts[r]

\* Robber moves onto the tiles that produce in the games below, and the
\* calls that matter to production: the specification the robber's effect
\* on production is checked in.
ProducerRobberInputs ==
    {<<3, ORANGE>>, <<3, None>>, <<15, BLUE>>, <<15, None>>, <<0, ORANGE>>, <<0, BLUE>>,
     <<12, ORANGE>>, <<12, BLUE>>, <<18, None>>}

ProductionInit ==
    /\ catan \in {ScarceGrain, MidGame, Settled, LastSetUp}
    /\ last = [op |-> "Catan", action |-> None, extra |-> <<>>, err |-> None,
               immediate |-> FALSE]
    /\ shadow = <<>>
    /\ undone = <<>>
    /\ pattern = "do"
    /\ rejections = 0

DoMoveRobberToProducer ==
    /\ CanCall
    /\ \E robber \in ProducerRobberInputs :
        \E resource_type_take \in TakeInputs(catan, robber[2]) :
            Do(MOVE_ROBBER, robber, resource_type_take)

ProductionNext ==
    \/ DoMoveRobberToProducer
    \/ DoProduceResources
    \/ DoEndTurn
    \/ Undo

ProductionSpec == ProductionInit /\ [][ProductionNext]_vars

\* C26: the robber suppresses production: an accepted
\* produce_resources(token) transfers nothing for a tile bearing the token
\* that holds the robber, while the other tiles bearing the token still
\* produce: of every resource the bank can pay in full, each player gains
\* exactly the yield of their buildings on the tiles bearing the token that
\* do not hold the robber, so nothing when the only tile of that resource
\* bearing the token is the robber's.
C26_RobberSuppressesProduction ==
    [][(/\ last'.op = "do_action" /\ last'.err = None
        /\ last'.action = PRODUCE_RESOURCES)
       => \A r \in ResourceTypes :
            FullySupplied(catan, last'.extra[1], r) =>
                \A color \in _color_to_player(catan) :
                    catan'.p_resource_amounts[color][r] =
                        catan.p_resource_amounts[color][r] + Demand(catan, last'.extra[1], color, r)]_vars

\* A production in which the robber's tile bears the token and has a
\* building on it whose owner gained nothing of its resource, while another
\* tile bearing the token paid a player.
C26_Witness ==
    /\ Accepted /\ last.action = PRODUCE_RESOURCES /\ shadow # <<>>
    /\ Before.robber_tile \in TilesBearing(last.extra[1])
    /\ \E color \in _color_to_player(Before) :
          /\ BuildingsOnTile(Before, Before.robber_tile, color) # {}
          /\ catan.p_resource_amounts[color][TileResourceType(Before.robber_tile)] =
                Before.p_resource_amounts[color][TileResourceType(Before.robber_tile)]
    /\ \E color \in _color_to_player(Before), r \in ResourceTypes :
          catan.p_resource_amounts[color][r] > Before.p_resource_amounts[color][r]

(***************************************************************************)
(* The order of the checks of the build actions.  _build_road,             *)
(* _build_settlement and _build_city test the index, the player's pieces,  *)
(* the location and the resources, in that order.                          *)
(***************************************************************************)
BuildActions == {BUILD_ROAD, BUILD_SETTLEMENT, BUILD_CITY}

\* The index names an edge (a road) or a vertex (a settlement, a city).
ValidBuildIdx(action, idx) ==
    IF action = BUILD_ROAD THEN idx \in EDGE_IDXS ELSE idx \in VERTEX_IDXS

\* player.roads_left == 0, player.settlements_left == 0, player.cities_left == 0
NoPieceLeft(g, action) ==
    CASE action = BUILD_ROAD -> g.roads_left[turn(g)] = 0
      [] action = BUILD_SETTLEMENT -> g.settlements_left[turn(g)] = 0
      [] action = BUILD_CITY -> g.cities_left[turn(g)] = 0

\* The location checks: a road needs a free edge next to a road or a
\* building of the player; a settlement a free vertex that is connected and
\* respects the distance rule; a city a settlement of the player.
BadLocation(g, action, idx) ==
    \/ ~ValidBuildIdx(action, idx)
    \/ /\ action = BUILD_ROAD
       /\ \/ idx \in DOMAIN g.edge_road
          \/ ~RoadIsConnected(g, idx, turn(g))
    \/ /\ action = BUILD_SETTLEMENT
       /\ \/ HasBuilding(g, idx)
          \/ idx \notin g._connected_vertices[turn(g)]
          \/ idx \in g._distance_rule_vertices
    \/ /\ action = BUILD_CITY
       /\ NotOwnSettlement(g, idx, turn(g))

BuildCost(action) ==
    CASE action = BUILD_ROAD -> ROAD_COST
      [] action = BUILD_SETTLEMENT -> SETTLEMENT_COST
      [] action = BUILD_CITY -> CITY_COST

\* The error the three checks give in the order pieces, location, resources.
FirstFailing(g, action, idx) ==
    IF NoPieceLeft(g, action) THEN NotEnoughPiecesError
    ELSE IF BadLocation(g, action, idx) THEN BuildLocationError
    ELSE IF ~CanPay(g, turn(g), BuildCost(action)) THEN InvalidResourcesError
    ELSE None

\* Nothing was paid and nothing was placed.
NothingBuilt ==
    /\ catan'.p_resource_amounts = catan.p_resource_amounts
    /\ catan'.resource_amounts = catan.resource_amounts
    /\ catan'.edge_road = catan.edge_road
    /\ catan'.vertex_building = catan.vertex_building

\* A build request made when the game is past its set-up phase.
BuildRequest ==
    /\ last'.op = "do_action" /\ last'.action \in BuildActions
    /\ ~is_set_up(catan)

\* C27 as stated: the error of a build_road, build_settlement or build_city
\* request is the first failing check in the order piece availability
\* (NotEnoughPiecesError), location validity (BuildLocationError), resource
\* sufficiency (InvalidResourcesError); resources are taken and occupancy
\* changed only if all three pass.
C27_BuildValidationOrder_AsStated ==
    [][BuildRequest =>
        /\ last'.err = FirstFailing(catan, last'.action, last'.extra[1])
        /\ last'.err # None => NothingBuilt]_vars

\* C27: the index of a build request is checked before anything else: a
\* request that names no edge (no vertex) is rejected with ValueError
\* whatever else is wrong with it.  For a valid index the error is the first
\* failing check in the order pieces, location, resources, and a rejected
\* request takes no resources and changes no occupancy.
C27_BuildValidationOrder ==
    [][BuildRequest =>
        /\ ~ValidBuildIdx(last'.action, last'.extra[1]) => last'.err = ValueError
        /\ ValidBuildIdx(last'.action, last'.extra[1]) =>
              last'.err = FirstFailing(catan, last'.action, last'.extra[1])
        /\ last'.err # None => NothingBuilt]_vars

\* A rejected settlement that failed all three checks at once: no
\* settlement left, an occupied vertex, and a hand that cannot pay.
C27_Witness ==
    /\ last.op = "do_action" /\ last.action = BUILD_SETTLEMENT
    /\ last.err = NotEnoughPiecesError
    /\ catan.settlements_left[turn(catan)] = 0
    /\ HasBuilding(catan, last.extra[1])
    /\ ~CanPay(catan, turn(catan), SETTLEMENT_COST)

(***************************************************************************)
(* Resource counts.  _transfer_resources subtracts and adds without a      *)
(* check of its own: the callers' checks are all that keeps a count from   *)
(* going below zero.  _discard_half checks the sum of the amounts and that  *)
(* the player holds each amount, not the sign of an amount.                *)
(***************************************************************************)
\* BLUE to move after eighteen productions of token 5, which gave ORANGE
\* (vertex 29) the bank's last brick.
DrainedBrickScript == SubSeq(ScarceGrainScript, 1, 4) \o Produce(5, 18)
DrainedBrick == RunScript(NewGame(BaseDeck), DrainedBrickScript, 1)

\* Amounts to discard, as integers: the lists of DiscardInputs and lists
\* with a negative entry whose sum is half of a hand.
IntegerDiscardInputs ==
    DiscardInputs \cup {<<0 - 1, 1, 1, 0, 0>>, <<2, 0 - 1, 0, 0, 0>>, <<0, 0, 0, 0, 0 - 1>>}

DoDiscardHalfOfIntegers ==
    /\ CanCall
    /\ \E color \in Colors, amounts \in IntegerDiscardInputs :
            Do(DISCARD_HALF, <<color, amounts>>, None)

PlayInit ==
    /\ catan \in {DrainedBrick, ScarceGrain, RoadRace, CardsGame, GenericHarbor, Purchase,
                  ArmyRace, LastSetUp}
    /\ last = [op |-> "Catan", action |-> None, extra |-> <<>>, err |-> None,
               immediate |-> FALSE]
    /\ shadow = <<>>
    /\ undone = <<>>
    /\ pattern = "do"
    /\ rejections = 0

\* Every call of do_action, and no undo_action.
PlayNext ==
    \/ DoEndTurn
    \/ DoBuildSetUp
    \/ DoProduceResources
    \/ DoDiscardHalfOfIntegers
    \/ DoMoveRobber
    \/ DoPlayKnight
    \/ DoPlayRoadBuilding
    \/ DoPlayYearOfPlenty
    \/ DoPlayMonopoly
    \/ DoTradeDomestic
    \/ DoTradeMaritime
    \/ DoBuildRoad
    \/ DoBuildSettlement
    \/ DoBuildCity
    \/ DoBuyDevelopmentCard

PlaySpec == PlayInit /\ [][PlayNext]_vars

\* C28: non-negative counts: in every state reachable through do_action
\* (discards of any integer amounts that pass the checks, production under
\* shortage, year of plenty, maritime trade and the grants of the second
\* set-up round included) every player's and the bank's count of every
\* resource is at least 0.
C28_NonNegativeCounts ==
    \A r \in ResourceTypes :
        /\ catan.resource_amounts[r] >= 0
        /\ \A color \in _color_to_player(catan) : catan.p_resource_amounts[color][r] >= 0

\* The players' counts alone: they stay at least 0.
PlayersNonNegative ==
    \A r \in ResourceTypes, color \in _color_to_player(catan) :
        catan.p_resource_amounts[color][r] >= 0

(***************************************************************************)
(* Connectivity.  _build_set_up places a settlement together with a road   *)
(* on an edge of its vertex; _build_settlement requires the vertex in the  *)
(* player's _connected_vertices, the ends of the player's roads.           *)
(***************************************************************************)
\* The vertex has an adjacent edge that carries a road of the colour.
RoadAtVertex(g, v, color) == \E e \in Range(VertexAdjEdges[v]) : HasRoad(g, e, color)

\* C29: building connectivity: in every reachable state between actions,
\* every vertex that holds a building has at least one adjacent edge
\* carrying a road of the building owner's colour.
C29_BuildingConnectivity ==
    \A v \in DOMAIN catan.vertex_building :
        RoadAtVertex(catan, v, catan.vertex_building[v].color)

\* A settlement built after the set-up phase, on a vertex at the end of a
\* road of its owner.
C29_Witness ==
    /\ Accepted /\ last.action = BUILD_SETTLEMENT
    /\ HasBuilding(catan, last.extra[1])
    /\ RoadAtVertex(catan, last.extra[1], catan.vertex_building[last.extra[1]].color)
    /\ Cardinality(DOMAIN catan.vertex_building) >= 5

\* The road on the edge lies next to another road of its colour or ends at
\* a building of its colour.
RoadIsAttached(g, e) ==
    \/ \E a \in Range(EdgeAdjEdges[e]) : a # e /\ HasRoad(g, a, g.edge_road[e])
    \/ \E v \in Range(EdgeAdjVertices[e]) :
            HasBuilding(g, v) /\ g.vertex_building[v].color = g.edge_road[e]

\* The game with a road of the colour on the edge, the rest as it was.
WithRoad(g, e, color) ==
    [g EXCEPT !.edge_road = [x \in DOMAIN @ \cup {e} |-> IF x = e THEN color ELSE @[x]]]

\* The edge is free, and next to a road or a building of the player to move.
FreeAndConnected(g, e) ==
    /\ e \in EDGE_IDXS
    /\ e \notin DOMAIN g.edge_road
    /\ RoadIsConnected(g, e, turn(g))

\* Every road on the board is attached.
AllRoadsAttached(g) == \A e \in DOMAIN g.edge_road : RoadIsAttached(g, e)

\* The placements of an accepted BUILD_ROAD or Road Building play, each on
\* an edge that was free and connected when its road was placed.
PlacedOnFreeConnectedEdges ==
    /\ (last'.op = "do_action" /\ last'.err = None /\ last'.action = BUILD_ROAD)
        => FreeAndConnected(catan, last'.extra[1])
    /\ (/\ last'.op = "do_action" /\ last'.err = None
        /\ last'.action = PLAY_DEVELOPMENT_CARD /\ last'.extra[1] = ROAD_BUILDING)
        => /\ FreeAndConnected(catan, last'.extra[2])
           /\ last'.extra[3] # NoIdx =>
                FreeAndConnected(WithRoad(catan, last'.extra[2], turn(catan)), last'.extra[3])

\* C30: road connectivity: a road placement (BUILD_ROAD or Road Building)
\* is accepted only on an unoccupied edge that is adjacent to a road of the
\* same colour or has an endpoint holding a building of the same colour, so
\* in every reachable state every road on the board is adjacent to another
\* road of its owner or touches a building of its owner.
C30_RoadConnectivity ==
    [][PlacedOnFreeConnectedEdges]_vars /\ []AllRoadsAttached(catan)

\* The second half alone: every road on the board is attached.
RoadsStayAttached == AllRoadsAttached(catan)

\* The first half for BUILD_ROAD and for the first road of a Road Building play.
FirstRoadOnFreeConnectedEdge ==
    [][(/\ last'.op = "do_action" /\ last'.err = None
        /\ \/ last'.action = BUILD_ROAD
           \/ last'.action = PLAY_DEVELOPMENT_CARD /\ last'.extra[1] = ROAD_BUILDING)
       => FreeAndConnected(catan, IF last'.action = BUILD_ROAD THEN last'.extra[1]
                                  ELSE last'.extra[2])]_vars

(***************************************************************************)
(* Monopoly and year of plenty.  The plays are explored from games in      *)
(* which BLUE holds the playable cards: a game of three players whose      *)
(* other two hold 2 and 3 lumber, a game of two players with a full bank,  *)
(* and a game of two players whose bank is down to a single grain.         *)
(***************************************************************************)
\* A deck whose top card is a monopoly.
MonopolyDeck == [i \in 1..18 |-> i] \o [i \in 1..6 |-> i + 19] \o <<19>>

\* Three players, BLUE to move with a playable monopoly; BLUE bought it with
\* an ore traded for two grain at its grain harbor.
MonopolistScript ==
    [i \in 1..6 |-> <<BUILD_SET_UP, Placements[i]>>]
    \o Produce(9, 3) \o Maritime("GRAIN", "ORE", 1) \o Buy(1) \o EndTurn(3)
    \o Produce(2, 1) \o Produce(8, 2) \o Produce(5, 2)
Monopolist == RunScript(NewGameOf(<<BLUE, ORANGE, RED>>, MonopolyDeck), MonopolistScript, 1)

\* Two players, BLUE to move with a playable year of plenty and monopoly.
\* Productions empty the bank type by type: lumber and wool, then ore and
\* brick, which leaves 17 grain and nothing else, then grain down to one card.
NoLumberNoWool ==
    RunScript(NewGame(PlentyDeck),
              TwoCardsScript \o EndTurn(2) \o Produce(2, 18) \o Produce(10, 19), 1)
GrainOnly == RunScript(NoLumberNoWool, Produce(11, 19) \o Produce(5, 9), 1)
LastCard == RunScript(GrainOnly, Produce(9, 8), 1)

PlentyInputs ==
    {<<"GRAIN", None>>, <<"GRAIN", "GRAIN">>, <<"ORE", None>>, <<"GRAIN", "ORE">>,
     <<"ORE", "ORE">>, <<"BRICK", "GRAIN">>}

DoPlayMonopolyOfAny ==
    /\ CanCall
    /\ \E resource_type \in ResourceTypes :
        Do(PLAY_DEVELOPMENT_CARD, <<MONOPOLY, resource_type>>, None)

DoPlayYearOfPlentyOfAny ==
    /\ CanCall
    /\ \E resource_types \in PlentyInputs :
        Do(PLAY_DEVELOPMENT_CARD, <<YEAR_OF_PLENTY>> \o resource_types, None)

CardInit ==
    /\ catan \in {Monopolist, CardsGame, LastCard, GrainOnly}
    /\ last = [op |-> "Catan", action |-> None, extra |-> <<>>, err |-> None,
               immediate |-> FALSE]
    /\ shadow = <<>>
    /\ undone = <<>>
    /\ pattern = "do"
    /\ rejections = 0

CardNext ==
    \/ DoPlayMonopolyOfAny
    \/ DoPlayYearOfPlentyOfAny
    \/ DoProduceResources
    \/ DoBuyDevelopmentCard
    \/ DoEndTurn
    \/ Undo

CardSpec == CardInit /\ [][CardNext]_vars

\* An accepted play of a card of the type.
Played(card_type) ==
    /\ last'.op = "do_action" /\ last'.err = None
    /\ last'.action = PLAY_DEVELOPMENT_CARD
    /\ last'.extra[1] = card_type

\* What the players other than the one to move hold of a type, in all.
HeldByOthers(g, r) == Held(g, r) - g.p_resource_amounts[turn(g)][r]

\* One playable card of the type has left the hand of the player to move,
\* and no other card has moved.
CardSpent(g, h, card_type) ==
    /\ HasPlayableCard(g, turn(g), card_type)
    /\ Hand(h, turn(g)) = [Hand(g, turn(g)) EXCEPT ![card_type, TRUE] = @ - 1]
    /\ \A color \in _color_to_player(g) \ {turn(g)} : Hand(h, color) = Hand(g, color)
    /\ h.development_cards = g.development_cards

\* C31: an accepted monopoly play on resource type r leaves every other
\* player with none of r, gives the player to move all that the others held
\* of r, leaves the bank and every other resource type as they were, and
\* takes one playable monopoly card from the player's hand.
C31_Monopoly ==
    [][Played(MONOPOLY) =>
        LET player == turn(catan)
            r == last'.extra[2]
        IN  /\ \A color \in _color_to_player(catan) \ {player} :
                  catan'.p_resource_amounts[color][r] = 0
            /\ catan'.p_resource_amounts[player][r] =
                  catan.p_resource_amounts[player][r] + HeldByOthers(catan, r)
            /\ catan'.resource_amounts = catan.resource_amounts
            /\ \A color \in _color_to_player(catan), q \in ResourceTypes \ {r} :
                  catan'.p_resource_amounts[color][q] = catan.p_resource_amounts[color][q]
            /\ CardSpent(catan, catan', MONOPOLY)]_vars

\* BLUE played the monopoly on lumber against ORANGE, who held 2, and RED,
\* who held 3, and holds their 5 lumber.
C31_Witness ==
    /\ Accepted /\ last.action = PLAY_DEVELOPMENT_CARD /\ last.extra = <<MONOPOLY, "LUMBER">>
    /\ Before.p_resource_amounts[ORANGE]["LUMBER"] = 2
    /\ Before.p_resource_amounts[RED]["LUMBER"] = 3
    /\ catan.p_resource_amounts[BLUE]["LUMBER"] = Before.p_resource_amounts[BLUE]["LUMBER"] + 5
    /\ catan.p_resource_amounts[ORANGE]["LUMBER"] = 0
    /\ catan.p_resource_amounts[RED]["LUMBER"] = 0

\* A year of plenty play, accepted or rejected, by a player who holds a
\* playable year of plenty.
PlentyPlay ==
    /\ last'.op = "do_action" /\ last'.action = PLAY_DEVELOPMENT_CARD
    /\ last'.extra[1] = YEAR_OF_PLENTY
    /\ HasPlayableCard(catan, turn(catan), YEAR_OF_PLENTY)

\* The cards the play asks for, by type.
Requested(extra) ==
    [r \in ResourceTypes |-> (IF extra[2] = r THEN 1 ELSE 0) + (IF extra[3] = r THEN 1 ELSE 0)]

\* The bank holds fewer cards of a requested type than requested.
BankShort(g, extra) == \E r \in ResourceTypes : g.resource_amounts[r] < Requested(extra)[r]

\* The requested cards went from the bank to the player to move, the card
\* was spent and nothing else moved.
Granted(g, h, extra) ==
    /\ h.resource_amounts = [r \in ResourceTypes |-> g.resource_amounts[r] - Requested(extra)[r]]
    /\ h.p_resource_amounts[turn(g)] =
          [r \in ResourceTypes |-> g.p_resource_amounts[turn(g)][r] + Requested(extra)[r]]
    /\ \A color \in _color_to_player(g) \ {turn(g)} :
          h.p_resource_amounts[color] = g.p_resource_amounts[color]
    /\ CardSpent(g, h, YEAR_OF_PLENTY)

\* C32 as stated: a play that asks for more cards of a type than the bank
\* holds is rejected with NotEnoughGameCardsError; a play that asks for one
\* card is accepted if and only if the bank holds exactly one card in all,
\* and a play that asks for two is rejected in that case; an accepted play
\* grants the cards asked for.
C32_YearOfPlenty_AsStated ==
    [][PlentyPlay =>
        /\ BankShort(catan, last'.extra) => last'.err = NotEnoughGameCardsError
        /\ last'.extra[3] = None =>
              (last'.err = None <=> Total(catan.resource_amounts) = 1)
        /\ (last'.extra[3] # None /\ Total(catan.resource_amounts) = 1) => last'.err # None
        /\ last'.err = None => Granted(catan, catan', last'.extra)]_vars

\* C32: a year of plenty play by a player who holds a playable card is
\* rejected with ValueError if it asks for one card while the bank does not
\* hold exactly one card in all, or for two cards while it does; otherwise
\* it is rejected with NotEnoughGameCardsError if the bank holds fewer cards
\* of a requested type than requested; otherwise it is accepted and grants
\* the one or two cards asked for (the same type twice is allowed).  A
\* rejected play changes nothing.
C32_YearOfPlenty ==
    [][PlentyPlay =>
        /\ last'.err =
              IF (last'.extra[3] = None) # (Total(catan.resource_amounts) = 1) THEN ValueError
              ELSE IF BankShort(catan, last'.extra) THEN NotEnoughGameCardsError
              ELSE None
        /\ last'.err = None => Granted(catan, catan', last'.extra)
        /\ last'.err # None => Fields(catan') = Fields(catan)]_vars

\* The bank held one grain and nothing else, and BLUE took it with a year
\* of plenty that asked for one card.
C32_Witness ==
    /\ Accepted /\ last.action = PLAY_DEVELOPMENT_CARD
    /\ last.extra = <<YEAR_OF_PLENTY, "GRAIN", None>>
    /\ Total(Before.resource_amounts) = 1
    /\ Total(catan.resource_amounts) = 0
    /\ catan.p_resource_amounts[BLUE]["GRAIN"] = Before.p_resource_amounts[BLUE]["GRAIN"] + 1

\* What an accepted Road Building play of the edges does: no resource
\* moves, the first edge was free and connected, the second was free and
\* connected once the first road was placed, one edge was named exactly
\* when one road was left, and as many roads went from the player's supply
\* to the board as edges were named.
RoadsBuilt(g, h, edge_idx_1, edge_idx_2) ==
    LET player == turn(g)
        n == IF edge_idx_2 = NoIdx THEN 1 ELSE 2
    IN  /\ h.resource_amounts = g.resource_amounts
        /\ h.p_resource_amounts = g.p_resource_amounts
        /\ FreeAndConnected(g, edge_idx_1)
        /\ edge_idx_2 # NoIdx =>
              /\ edge_idx_2 \notin DOMAIN g.edge_road
              /\ RoadIsConnected(WithRoad(g, edge_idx_1, player), edge_idx_2, player)
        /\ (edge_idx_2 = NoIdx) <=> (g.roads_left[player] = 1)
        /\ HasRoad(h, edge_idx_1, player)
        /\ edge_idx_2 # NoIdx => HasRoad(h, edge_idx_2, player)
        /\ Cardinality(RoadsOnBoard(h, player)) = Cardinality(RoadsOnBoard(g, player)) + n
        /\ h.roads_left[player] = g.roads_left[player] - n
        /\ CardSpent(g, h, ROAD_BUILDING)

\* C33: an accepted Road Building play costs no resources and places the
\* player's roads on the supplied edges, each unoccupied and connected to
\* the player's network (the second possibly through the first); one edge
\* is supplied exactly when the player has one road left; the number of
\* the player's roads on the board grows by the number of edges supplied
\* and roads_left drops by the same number.
C33_RoadBuilding ==
    [][Played(ROAD_BUILDING) =>
        RoadsBuilt(catan, catan', last'.extra[2], last'.extra[3])]_vars

\* The same for the plays that name two different edges or one edge.
RoadBuildingOfDistinctEdges ==
    [][(Played(ROAD_BUILDING) /\ last'.extra[2] # last'.extra[3]) =>
        RoadsBuilt(catan, catan', last'.extra[2], last'.extra[3])]_vars

\* A DISCARD_HALF call, accepted or rejected, outside the set-up phase and
\* for a player of the game.
DiscardCall ==
    /\ last'.op = "do_action" /\ last'.action = DISCARD_HALF
    /\ ~is_set_up(catan)
    /\ last'.extra[1] \in _color_to_player(catan)

\* dict(zip(ResourceType, amounts))
AmountsByType(amounts) ==
    [r \in ResourceTypes |-> amounts[CHOOSE i \in 1..5 : ResourceType[i] = r]]

\* C34: discard_half(player, amounts) is accepted if and only if the total
\* of amounts is floor(hand size / 2) and no amount exceeds the player's
\* holding of its type; an accepted call moves exactly those amounts from
\* the player to the bank and leaves the player with ceil(hand size / 2)
\* cards; a rejected call changes nothing.
C34_DiscardHalf ==
    [][DiscardCall =>
        LET color == last'.extra[1]
            hand == catan.p_resource_amounts[color]
            resource_amounts == AmountsByType(last'.extra[2])
        IN  /\ (last'.err = None) <=>
                  /\ SumSeq(last'.extra[2]) = Total(hand) \div 2
                  /\ \A r \in ResourceTypes : resource_amounts[r] <= hand[r]
            /\ last'.err = None =>
                  /\ catan'.p_resource_amounts[color] =
                        [r \in ResourceTypes |-> hand[r] - resource_amounts[r]]
                  /\ catan'.resource_amounts =
                        [r \in ResourceTypes |-> catan.resource_amounts[r] + resource_amounts[r]]
                  /\ \A other \in _color_to_player(catan) \ {color} :
                        catan'.p_resource_amounts[other] = catan.p_resource_amounts[other]
                  /\ Total(catan'.p_resource_amounts[color]) = Total(hand) - (Total(hand) \div 2)
            /\ last'.err # None => Fields(catan') = Fields(catan)]_vars

\* A player with a hand of five cards discarded two of them and holds three.
C34_Witness ==
    /\ Accepted /\ last.action = DISCARD_HALF
    /\ \A i \in 1..5 : last.extra[2][i] >= 0
    /\ Total(Before.p_resource_amounts[last.extra[1]]) = 5
    /\ Total(catan.p_resource_amounts[last.extra[1]]) = 3
    /\ Total(catan.resource_amounts) = Total(Before.resource_amounts) + 2

(***************************************************************************)
(* Road layouts.  BLUE, with brick and lumber for nine roads, builds them  *)
(* one after the other (do_action(BUILD_ROAD), save_state=False) on the    *)
(* edges of two hexagons that share an edge and of a branch that runs      *)
(* through vertex 48, where ORANGE has a settlement.                       *)
(***************************************************************************)
RichScript == SetUpScript \o Produce(5, 9) \o Produce(2, 9)
Rich == RunScript(NewGame(BaseDeck), RichScript, 1)

\* The edges of tile 10 and of tile 11, which share edge 40, and the
\* branch 65, 66, 67; edge 58 of tile 11 is BLUE's second set-up road.
LayoutEdges == {24, 25, 26, 39, 57, 40, 27, 28, 41, 59, 65, 66, 67}

LayoutInit ==
    /\ catan = Rich
    /\ last = [op |-> "Catan", action |-> None, extra |-> <<>>, err |-> None,
               immediate |-> FALSE]
    /\ shadow = <<>>
    /\ undone = <<>>
    /\ pattern = "do"
    /\ rejections = 0

\* An accepted do_action(BUILD_ROAD, [edge_idx]) that saves no state.
BuildRoadUnsaved ==
    \E edge_idx \in LayoutEdges :
    \E after \in {do_action(catan, BUILD_ROAD, <<edge_idx>>, None, FALSE)} :
        /\ after.err = None
        /\ catan' = after
        /\ last' = [op |-> "do_action", action |-> BUILD_ROAD, extra |-> <<edge_idx>>,
                    err |-> None, immediate |-> FALSE]
        /\ UNCHANGED <<shadow, undone, pattern, rejections>>

LayoutSpec == LayoutInit /\ [][BuildRoadUnsaved]_vars

\* The reference: the number of roads of the longest path that starts at
\* the vertex, uses roads of the colour other than the used ones, each at
\* most once, and does not go on from a vertex that holds a building of
\* another colour.
RECURSIVE LongestPathFrom(_, _, _, _)
LongestPathFrom(g, color, vertex, used) ==
    IF HasBuilding(g, vertex) /\ g.vertex_building[vertex].color # color THEN 0
    ELSE SetMax({1 + LongestPathFrom(g, color,
                        CHOOSE w \in Range(EdgeAdjVertices[e]) : w # vertex, used \cup {e}) :
                 e \in {x \in Range(VertexAdjEdges[vertex]) : HasRoad(g, x, color)} \ used})

\* The longest such path within the roads of the colour connected to the edge.
LongestPath(g, color, edge) ==
    SetMax({1 + LongestPathFrom(g, color, w[2], {w[1]}) :
            w \in {x \in RoadComponent(g, color, {edge}) \X VERTEX_IDXS :
                     x[2] \in Range(EdgeAdjVertices[x[1]])}})

\* C35: after a road placement by player p, p's tracked longest_road is the
\* maximum of its previous value and the length of the longest path of p's
\* roads that uses no edge twice, within the connected component of p's
\* roads that contains the new edge, where a path may pass through empty
\* vertices and vertices p occupies but not through a vertex that holds an
\* opponent's building.
C35_LongestRoadSearch ==
    [][(last'.op = "do_action" /\ last'.err = None /\ last'.action = BUILD_ROAD) =>
        catan'.longest_road[turn(catan)] =
            Max(catan.longest_road[turn(catan)],
                LongestPath(catan', turn(catan), last'.extra[1]))]_vars

(***************************************************************************)
(* The generated token layout.  Catan() called with no lists shuffles the  *)
(* tile types, so the desert can land on any of the 19 tiles, and          *)
(* _CatanBoard.__init__ draws the corner tile the spiral starts from.      *)
(***************************************************************************)
\* An outcome of shuffle(tile_types) with the desert on tile desert_idx.
DesertOn(desert_idx) ==
    [i \in 1..19 |-> IF i = desert_idx + 1 THEN "DESERT"
                     ELSE IF i = 1 THEN BASE_TILE_TYPES[desert_idx + 1]
                     ELSE BASE_TILE_TYPES[i]]

\* A call of Catan(colors) that has not been made yet.
GeneratedInit ==
    /\ catan = [err |-> None]
    /\ last = [op |-> "arguments", action |-> None,
               extra |-> <<NotGiven, NotGiven, NotGiven>>,
               err |-> None, immediate |-> FALSE]
    /\ shadow = <<>>
    /\ undone = <<>>
    /\ pattern = "do"
    /\ rejections = 0

\* Catan(colors): the tile types and the harbor types are shuffled and the
\* tokens are generated for the place of the desert.
ConstructGenerated ==
    /\ last.op = "arguments"
    /\ Validate(colors, last.extra[1], last.extra[2], last.extra[3]) = None
    /\ \E desert_idx \in TILE_IDXS, starting_tile_idx \in CORNER_TILE_IDXS,
          board_harbor_types \in ShuffledHarborTypes :
        /\ catan' = _CatanBoard(
                        DesertOn(desert_idx),
                        DefaultTokens(Index(DesertOn(desert_idx), "DESERT"), starting_tile_idx),
                        board_harbor_types)
        /\ last' = [last EXCEPT !.op = "Catan"]
    /\ UNCHANGED <<shadow, undone, pattern, rejections>>

GeneratedSpec == GeneratedInit /\ [][ConstructGenerated]_vars

\* C36: when no tokens are supplied, wherever the desert tile is (0..18) and
\* whichever corner tile the layout starts from, the generated list has 19
\* entries, the empty token exactly at the index of the desert tile, and the
\* other 18 entries are the 18 base production tokens, each as often as in
\* the base list.
C36_GeneratedTokens ==
    (last.op = "Catan" /\ ~last.extra[2].supplied) =>
        /\ Len(catan.tokens) = 19
        /\ \A i \in 1..19 : (catan.tokens[i] = 0) <=> (catan.tile_types[i] = "DESERT")
        /\ \A token \in TOKENS : Count(catan.tokens, token) = Count(BASE_TOKENS, token)

\* A board generated with the desert on tile 14, in the inner ring, from the
\* corner tile 4.
C36_Witness ==
    /\ last.op = "Catan" /\ ~last.extra[2].supplied
    /\ catan.tile_types[15] = "DESERT"
    /\ catan.tokens = <<8, 3, 6, 2, 5, 10, 8, 4, 11, 12, 9, 10, 4, 9, 0, 3, 6, 5, 11>>

(***************************************************************************)
(* Piece accounting: the pieces a player has left and the pieces of the    *)
(* player's colour on the board.                                           *)
(***************************************************************************)
\* The vertices that hold a building of the colour and of the type.
BuildingsOnBoard(g, color, building_type) ==
    {v \in DOMAIN g.vertex_building :
        g.vertex_building[v] = [color |-> color, building_type |-> building_type]}

SettlementsAccounted(g) ==
    \A color \in _color_to_player(g) :
        /\ g.settlements_left[color] >= 0
        /\ g.settlements_left[color] + Cardinality(BuildingsOnBoard(g, color, SETTLEMENT)) = 5

CitiesAccounted(g) ==
    \A color \in _color_to_player(g) :
        /\ g.cities_left[color] >= 0
        /\ g.cities_left[color] + Cardinality(BuildingsOnBoard(g, color, CITY)) = 4

RoadsAccounted(g) ==
    \A color \in _color_to_player(g) :
        /\ g.roads_left[color] >= 0
        /\ g.roads_left[color] + Cardinality(RoadsOnBoard(g, color)) = 15

\* C37: in every state reached by accepted actions and undos (no call was
\* rejected), for every player, settlements_left plus the player's
\* settlements on the board is 5, cities_left plus the player's cities on the
\* board is 4, roads_left plus the player's roads on the board is 15, and
\* none of the three counters is negative.
C37_PieceAccounting ==
    rejections = 0 =>
        SettlementsAccounted(catan) /\ CitiesAccounted(catan) /\ RoadsAccounted(catan)

\* The settlements and the cities are accounted for in every state.
BuildingsAccounted == SettlementsAccounted(catan) /\ CitiesAccounted(catan)

\* The roads are accounted for by every step other than a road building play
\* that names the same edge twice.
RoadsAccountedByOtherSteps ==
    [][(RoadsAccounted(catan)
        /\ ~(Played(ROAD_BUILDING) /\ last'.extra[2] = last'.extra[3]))
       => RoadsAccounted(catan')]_vars

(***************************************************************************)
(* Victory-point accounting.                                               *)
(***************************************************************************)
\* The victory points a player's position is worth: 1 a settlement, 2 a
\* city, 1 a victory-point card in hand, 2 the longest road, 2 the largest
\* army.
PointsOf(g, color) ==
    Cardinality(BuildingsOnBoard(g, color, SETTLEMENT))
    + 2 * Cardinality(BuildingsOnBoard(g, color, CITY))
    + Hand(g, color)[VICTORY_POINT, TRUE] + Hand(g, color)[VICTORY_POINT, FALSE]
    + (IF g.longest_road_player = color THEN 2 ELSE 0)
    + (IF g.largest_army_player = color THEN 2 ELSE 0)

PointsAccounted(g) ==
    \A color \in _color_to_player(g) : g.victory_points[color] = PointsOf(g, color)

\* C38: in every state reached by accepted actions and undos (no call was
\* rejected) each player's victory_points equals the number of the player's
\* settlements on the board, plus twice the number of the player's cities,
\* plus the number of victory-point cards in the player's hand, plus 2 for
\* the longest road and 2 for the largest army.
C38_VictoryPointAccounting == rejections = 0 => PointsAccounted(catan)

\* A call of do_action never breaks the accounting of the victory points.
PointsKeptByActions ==
    [][(PointsAccounted(catan) /\ last'.op = "do_action") => PointsAccounted(catan')]_vars

(***************************************************************************)
(* Conservation of the development cards.  Cards 1..25 are the cards of    *)
(* the deck the game was built with; a card above 25 is one that the       *)
(* knight branch of undo_action made anew for a card that had been played. *)
(***************************************************************************)
\* In how many places of the deck and of the hands the card is.
PlacesOf(g, card) ==
    Count(g.development_cards, card)
    + SumSeq([i \in DOMAIN g.players |-> Count(g.p_development_cards[g.players[i]], card)])

\* The cards in the deck and in the hands, in all.
CardsInDeck(g) == Len(g.development_cards)
CardsInHands(g) == SumSeq([i \in DOMAIN g.players |-> Len(g.p_development_cards[g.players[i]])])

\* The cards that were played and removed: the cards of the original deck
\* that are in no place, less the ones given back by an undo.
CardsPlayed(g) ==
    Cardinality({card \in 1..25 : PlacesOf(g, card) = 0})
    - SumSeq([k \in 1..4 |-> PlacesOf(g, 25 + k)])

CardsConserved(g) ==
    /\ \A card \in 1..25 : PlacesOf(g, card) <= 1
    /\ CardsPlayed(g) >= 0
    /\ CardsInDeck(g) + CardsInHands(g) + CardsPlayed(g) = 25

\* C39: in every state reached by accepted actions and undos (no call was
\* rejected) each of the 25 development cards is in exactly one place (the
\* deck, one player's hand, or played and removed): no card is in the deck
\* and in a hand, or in two hands, at the same time, and the cards in the
\* deck, in the hands and played are 25 in all.
C39_CardConservation == rejections = 0 => CardsConserved(catan)

\* A call of do_action never puts a card in two places.
CardsKeptByActions ==
    [][(CardsConserved(catan) /\ last'.op = "do_action") => CardsConserved(catan')]_vars

(***************************************************************************)
(* The sets kept up to date by the builds, against the sets computed from  *)
(* the roads and the buildings on the board.                               *)
(***************************************************************************)
\* The endpoints of the colour's roads.
RoadEndpoints(g, color) ==
    {v \in VERTEX_IDXS : \E e \in RoadsOnBoard(g, color) : v \in Range(EdgeAdjVertices[e])}

\* The edges adjacent to at least one of the colour's roads.
EdgesByRoads(g, color) ==
    {e \in EDGE_IDXS : \E road \in RoadsOnBoard(g, color) : e \in Range(EdgeAdjEdges[road])}

\* The vertices that hold a building of the colour.
VerticesBuiltBy(g, color) ==
    {v \in DOMAIN g.vertex_building : g.vertex_building[v].color = color}

\* The vertices adjacent to a building.
VerticesByBuildings(g) ==
    {v \in VERTEX_IDXS : \E b \in DOMAIN g.vertex_building : v \in Range(VertexAdjVertices[b])}

SetsRecomputed(g) ==
    /\ \A color \in _color_to_player(g) :
        /\ g._connected_vertices[color] = RoadEndpoints(g, color)
        /\ g._connected_edges[color] = EdgesByRoads(g, color)
        /\ g._building_vertices[color] = VerticesBuiltBy(g, color)
    /\ g._distance_rule_vertices = VerticesByBuildings(g)

\* C40: in every state reached by accepted actions and undos in stack order
\* (no call was rejected), for each colour _connected_vertices is the set of
\* the endpoints of the colour's roads, _connected_edges the set of the edges
\* adjacent to at least one of its roads, _building_vertices the set of the
\* vertices that hold its buildings, and _distance_rule_vertices is the set
\* of the vertices adjacent to any building.
C40_IncrementalSets == rejections = 0 => SetsRecomputed(catan)

\* After an undo, a road was built next to the player's roads: some of the
\* edges adjacent to it were connected already and some were not.
C40_Witness ==
    /\ rejections = 0 /\ pattern = "other"
    /\ Accepted /\ last.action = BUILD_ROAD /\ shadow # <<>>
    /\ Range(EdgeAdjEdges[last.extra[1]]) \cap Before._connected_edges[turn(Before)] # {}
    /\ Range(EdgeAdjEdges[last.extra[1]]) \ Before._connected_edges[turn(Before)] # {}
    /\ SetsRecomputed(catan)

====
